---- MODULE Spec2Model ----
(***************************************************************************)
(* Decision engine of the dodger game (AdvancedDodgerAI): feature layout,  *)
(* policy/value network guards, threat analysis and the decide cascade.    *)
(*                                                                         *)
(* Numbers.  The engine works on JavaScript doubles.  Here lengths are     *)
(* integers in units of 1/U pixel (U = 50), which makes every offset the   *)
(* code adds to a position exact (0.707 * 80 = 56.56 px = 2828 units).     *)
(* A comparison hypot(a, b) < c is evaluated on squares, so it is exact.   *)
(* Dimensionless scores (threat levels, safety products, speeds) are       *)
(* fixed-point numbers in thousandths.                                     *)
(***************************************************************************)
EXTENDS Integers, Sequences, FiniteSets, TLC

VARIABLES
    world,                  \* the GameState handed to the engine
    clock,                  \* Date.now() in ms
    net,                    \* the six NeuralLayer objects
    recentPositions,        \* AdvancedDodgerAI.recentPositions
    borderAvoidanceMemory,  \* AdvancedDodgerAI.borderAvoidanceMemory
    centerTracker,          \* AdvancedDodgerAI.centerTracker
    lastAction,             \* AdvancedDodgerAI.lastAction
    lastFeatures,           \* AdvancedDodgerAI.lastFeatures
    decision,               \* what the last decide() call returned
    tick,                   \* the locals of the last decide() call
    features,               \* what the last extractFeatures() call returned
    fwd,                    \* what the last direct forward() call returned
    calls,                  \* number of engine calls made so far
    pred,                   \* where the last prediction put a hazard
    meta,                   \* the engine's statistics (episodeCount, ...)
    exported,               \* what the last exportWeights() call returned
    lastOp,                 \* the last reset, import or initializeAI call
    localStorage,           \* the browser's localStorage, by key
    engines,                \* the engine instances that share localStorage
    storeOp,                \* the last operation on one of these instances
    replay,                 \* the experience buffer, what was last sampled from it
    loop,                   \* the frame loop of a game mode and its two avatars
    turn                    \* the turn-based game: whose turn it is and for how long

vars == <<world, clock, net, recentPositions, borderAvoidanceMemory,
          centerTracker, lastAction, lastFeatures, decision, tick,
          features, fwd, calls, pred, meta, exported, lastOp, localStorage,
          engines, storeOp, replay, loop, turn>>

\* the variables the decision engine, feature extraction and the forward
\* pass leave alone
auxVars == <<pred, meta, exported, lastOp, localStorage, engines, storeOp, replay, loop, turn>>

----------------------------------------------------------------------------
(* Bounds of the model *)

MaxHazards == 2         \* hazards in a world handed to decide
MaxPickups == 1         \* pickups in a world handed to decide
MaxCalls == 2           \* engine calls explored in one behaviour
MaxFeatHazards == 22    \* hazards in a world handed to extractFeatures
MaxFeatPickups == 6     \* pickups in a world handed to extractFeatures
MaxLoads == 1           \* weight documents loaded into one network
MaxTicks == 3           \* seconds that pass while a network is observed
MaxPredSteps == 2       \* simulation steps a hazard is predicted over
MaxDocOps == 2          \* resets, imports and initialisations of one engine
MaxStoreOps == 4        \* constructions and episode ends of the two instances
maxSize == 3            \* capacity the experience buffer is constructed with
MaxAdds == 5            \* experiences added to a buffer since it was cleared
MaxFrames == 4          \* frames of a game loop
MaxTurnMs == 5100       \* game time a turn is followed for, in ms
MaxTurns == 3           \* turns recorded in one game
MaxGames == 2           \* calls of startGame

----------------------------------------------------------------------------
(* Arithmetic helpers *)

Scale == [unit |-> 50, milli |-> 1000, far |-> 32000]
U == Scale.unit         \* length units per pixel
Milli == Scale.milli    \* fixed-point scale of dimensionless numbers
Diag == 707             \* the code's 0.707, in thousandths

Abs(x) == IF x < 0 THEN -x ELSE x
Min2(a, b) == IF a < b THEN a ELSE b
Max2(a, b) == IF a > b THEN a ELSE b
Px(p) == p * U

\* Squares saturate beyond FarUnits so that sums stay inside 32 bits; every
\* distance threshold of the engine is far below FarUnits.
FarUnits == Scale.far
SqSat(d) == IF Abs(d) > FarUnits THEN FarUnits * FarUnits ELSE d * d
DistSq(dx, dy) == IF Abs(dx) > FarUnits \/ Abs(dy) > FarUnits
                  THEN 2 * FarUnits * FarUnits
                  ELSE dx * dx + dy * dy

\* hypot(dx, dy) < thr, for thr >= 0 in units
HypotLess(dx, dy, thr) == DistSq(dx, dy) < SqSat(thr)

\* floor of the square root, by Newton's iteration from above
RECURSIVE IsqrtIn(_, _)
IsqrtIn(n, x) ==
    LET y == (x + n \div x) \div 2
    IN IF y >= x THEN x ELSE IsqrtIn(n, y)
Isqrt(n) ==
    IF n <= 0 THEN 0
    ELSE IF n < 256 THEN IsqrtIn(n, 16)
    ELSE IF n < 65536 THEN IsqrtIn(n, 256)
    ELSE IF n < 1048576 THEN IsqrtIn(n, 1024)
    ELSE IF n < 16777216 THEN IsqrtIn(n, 4096)
    ELSE IF n < 268435456 THEN IsqrtIn(n, 16384)
    ELSE IsqrtIn(n, 46340)

\* Math.hypot, rounded down to a whole unit
Hypot(dx, dy) == Isqrt(DistSq(dx, dy))

\* 1000 * exp(-x/1000) for x >= 0
ExpNegTable == <<1000, 368, 135, 50, 18, 7, 2, 1>>
ExpNeg(x) ==
    LET k == x \div 1000
        f == x % 1000
        a2 == (f * f) \div 2000
        a3 == (a2 * f) \div 3000
        a4 == (a3 * f) \div 4000
        frac == 1000 - f + a2 - a3 + a4
    IN IF k >= Len(ExpNegTable) THEN 0
       ELSE (ExpNegTable[k + 1] * frac) \div 1000

\* 1000 * exp(x/1000) for any x, capped at 1000000
Exp(x) == IF x <= 0 THEN ExpNeg(-x)
          ELSE IF ExpNeg(x) = 0 THEN 1000000
          ELSE 1000000 \div ExpNeg(x)

\* Math.PI in milliradians
Pi == 3142

\* Math.acos of c thousandths, in milliradians: on [0, 1] the polynomial
\* sqrt(1 - x) (1.5707288 - 0.2121144 x + 0.0742610 x^2 - 0.0187293 x^3),
\* which is within 0.1 milliradian of the arc cosine
AcosPos(c) ==
    (Isqrt((Milli - c) * Milli)
     * ((((((-18729 * c) \div Milli + 74261) * c) \div Milli - 212114) * c) \div Milli
        + 1570729)) \div 1000000
Acos(c) == IF c >= 0 THEN AcosPos(c) ELSE Pi - AcosPos(-c)

\* Math.sin of a milliradians (a >= 0), in thousandths: the series
\* x - x^3/3! + x^5/5! - x^7/7! on the first quarter turn
SinQuarter(x) ==
    LET x2 == (x * x) \div Milli
        t3 == (x * x2) \div 6000
        t5 == (t3 * x2) \div 20000
        t7 == (t5 * x2) \div 42000
    IN x - t3 + t5 - t7
SinHalf(a) == SinQuarter(IF 2 * a > Pi THEN Pi - a ELSE a)
Sin(a) ==
    LET r == a % (2 * Pi)
    IN IF r > Pi THEN -SinHalf(r - Pi) ELSE SinHalf(r)

\* the element of a one-element set: The({e : x \in {v}}) is e with x bound
\* to v
The(S) == CHOOSE x \in S : TRUE

RECURSIVE SeqMax(_)
SeqMax(s) == IF Len(s) = 0 THEN 0 ELSE Max2(Head(s), SeqMax(Tail(s)))

----------------------------------------------------------------------------
(* The action table.  Index a + 1 holds the vector of action a. *)

ACTION_COUNT == 9

\* actionMap with the vectors of up and down exchanged
actionMapUpDownExchanged ==
    << <<0, 0>>, <<-1, 0>>, <<1, 0>>, <<0, 1>>, <<0, -1>>,
       <<-1, -1>>, <<1, -1>>, <<-1, 1>>, <<1, 1>> >>

\* decide's actionMap: integer movement vectors
actionMap == << <<0, 0>>, <<-1, 0>>, <<1, 0>>, <<0, -1>>, <<0, 1>>,
                <<-1, -1>>, <<1, -1>>, <<-1, 1>>, <<1, 1>> >>

\* the actionVectors tables of the analysers: 0.707 on the diagonals,
\* in thousandths
actionVectors == << <<0, 0>>, <<-1000, 0>>, <<1000, 0>>, <<0, -1000>>,
                    <<0, 1000>>, <<-Diag, -Diag>>, <<Diag, -Diag>>,
                    <<-Diag, Diag>>, <<Diag, Diag>> >>

\* player position moved by dist pixels along a vector given in thousandths
AlongX(gs, v, dist) == Px(gs.player.x) + (v[1] * dist * U) \div Milli
AlongY(gs, v, dist) == Px(gs.player.y) + (v[2] * dist * U) \div Milli

----------------------------------------------------------------------------
(* Kinematic predictor *)

\* hazard velocity components in units per second; dirX, dirY are in
\* thousandths, baseSpeed in pixels per second
VelX(h) == (h.dirX * h.baseSpeed * U) \div Milli
VelY(h) == (h.dirY * h.baseSpeed * U) \div Milli

\* an optional field that is not there (turnRate of a hazard)
Undefined == -1

\* the tracker branch's targetDirX, targetDirY in thousandths: the offset
\* to the player over hypot(dx, dy || 1); lenSq is the square of that
\* denominator, in units
TrackerTarget(h, gs) ==
    LET tx == Px(gs.player.x) - Px(h.x)
        ty == Px(gs.player.y) - Px(h.y)
        ty1 == IF ty = 0 THEN U ELSE ty
    IN The({ [x |-> (tx * Milli) \div d, y |-> (ty * Milli) \div d, lenSq |-> DistSq(tx, ty1)] :
               d \in {Hypot(tx, ty1)} })

\* the direction of a tracker after turning for dt milliseconds: towards
\* the target by at most turnRate * dt, when the angle to it exceeds 1e-4
TrackerBlend(h, tg, k) ==
    The({ The({ [x |-> (bx * Milli) \div n, y |-> (by * Milli) \div n] :
                  n \in {Max2(1, Hypot(bx, by))} }) :
            bx \in {((Milli - k) * h.dirX + k * tg.x) \div Milli},
            by \in {((Milli - k) * h.dirY + k * tg.y) \div Milli} })

TrackerDirection(h, gs, dt) ==
    The({ The({ IF theta > 0
                THEN TrackerBlend(h, tg,
                         Min2(Milli, ((((IF h.turnRate = Undefined THEN Pi ELSE h.turnRate)
                                        * dt) \div Milli) * Milli) \div theta))
                ELSE [x |-> h.dirX, y |-> h.dirY] :
                  theta \in {Acos(Max2(-Milli, Min2(Milli,
                                 (h.dirX * tg.x + h.dirY * tg.y) \div Milli)))} }) :
            tg \in {TrackerTarget(h, gs)} })

\* the zigzag branch's oscillation sin(t * zigFreq) * zigAmp, in units per
\* second; t and dt in milliseconds, zigFreq in radians per second
ZigzagOscillation(h, dt) == (Sin((h.t + dt) * h.zigFreq) * h.zigAmp * U) \div Milli

\* predictEnemyPositionPhysics; dt in milliseconds
predictEnemyPositionPhysics(h, gs, dt) ==
    IF h.kind = "tracker"
    THEN The({ [x |-> Px(h.x) + (((d.x * h.baseSpeed * U) \div Milli) * dt) \div Milli,
                y |-> Px(h.y) + (((d.y * h.baseSpeed * U) \div Milli) * dt) \div Milli] :
                 d \in {TrackerDirection(h, gs, dt)} })
    ELSE IF h.kind = "zigzag"
    THEN The({ [x |-> Px(h.x) + ((VelX(h) + (-h.dirY * osc) \div Milli) * dt) \div Milli,
                y |-> Px(h.y) + ((VelY(h) + (h.dirX * osc) \div Milli) * dt) \div Milli] :
                 osc \in {ZigzagOscillation(h, dt)} })
    ELSE [x |-> Px(h.x) + (VelX(h) * dt) \div Milli,
          y |-> Px(h.y) + (VelY(h) * dt) \div Milli]

\* extractAllEnemyInformation's nextX, nextY: where it puts the hazard one
\* second on
EnemyNextPosition(h) == [x |-> Px(h.x) + VelX(h), y |-> Px(h.y) + VelY(h)]

\* evaluateDirectionSafety's predictedHazardX, predictedHazardY at a step
\* of half a second, the player then being at (fx, fy)
DirSafetyHazardAt(h, fx, fy, step) ==
    IF h.kind = "tracker"
    THEN The({ IF d > 0
               THEN [x |-> Px(h.x) + ((((((fx - Px(h.x)) * Milli) \div d) * h.baseSpeed * U)
                                       \div Milli) * step) \div 2,
                     y |-> Px(h.y) + ((((((fy - Px(h.y)) * Milli) \div d) * h.baseSpeed * U)
                                       \div Milli) * step) \div 2]
               ELSE [x |-> Px(h.x), y |-> Px(h.y)] :
                 d \in {Hypot(fx - Px(h.x), fy - Px(h.y))} })
    ELSE [x |-> Px(h.x) + (VelX(h) * step) \div 2,
          y |-> Px(h.y) + (VelY(h) * step) \div 2]

----------------------------------------------------------------------------
(* Threat analysis *)

combinedRadius(h, gs) == Px(h.r + gs.player.r)

\* distance of hazard h to the player, in units
HazardDX(h, gs) == Px(h.x) - Px(gs.player.x)
HazardDY(h, gs) == Px(h.y) - Px(gs.player.y)

\* the threat level one hazard contributes to maxThreatLevel (thousandths)
CurrentThreat(h, gs) ==
    The({ IF HypotLess(dx, dy, R + Px(30)) THEN 1000
          ELSE IF HypotLess(dx, dy, R + Px(80))
               THEN ExpNeg(((Hypot(dx, dy) - R) * Milli) \div Px(40))
          ELSE 0 :
            dx \in {HazardDX(h, gs)}, dy \in {HazardDY(h, gs)},
            R \in {combinedRadius(h, gs)} })

\* 0.7 * dotProduct when the hazard heads for the player within 200 px
AlignedThreat(h, gs) ==
    The({ The({ IF /\ (VelX(h) # 0 \/ VelY(h) # 0)
                   /\ dot > 500
                   /\ HypotLess(tx, ty, Px(200))
                THEN (7 * dot) \div 10
                ELSE 0 :
                  dot \in {The({ IF td > 0 THEN (h.dirX * tx + h.dirY * ty) \div td ELSE 0 :
                                   td \in {Hypot(tx, ty)} })} }) :
            tx \in {-HazardDX(h, gs)}, ty \in {-HazardDY(h, gs)} })

PredictedThreat(h, gs) ==
    The({ IF HypotLess(p.x - Px(gs.player.x), p.y - Px(gs.player.y), R + Px(50))
          THEN Exp(((R - Hypot(p.x - Px(gs.player.x), p.y - Px(gs.player.y))) * Milli)
                   \div Px(35))
          ELSE 0 :
            p \in {predictEnemyPositionPhysics(h, gs, 500)},
            R \in {combinedRadius(h, gs)} })

\* index of the first hazard at minimal distance, 0 when there is none
nearestThreatIndex(gs) ==
    IF Len(gs.hazards) = 0 THEN 0
    ELSE The({ CHOOSE i \in DOMAIN d :
                  \A j \in DOMAIN d : d[i] < d[j] \/ (d[i] = d[j] /\ i <= j) :
               d \in {[i \in 1..Len(gs.hazards) |->
                         DistSq(HazardDX(gs.hazards[i], gs), HazardDY(gs.hazards[i], gs))]} })

\* does the point (x, y) lie within hazard radius + player radius + margin
\* of some hazard
NearHazard(gs, x, y, margin) ==
    \E i \in 1..Len(gs.hazards) :
        HypotLess(x - Px(gs.hazards[i].x), y - Px(gs.hazards[i].y),
                  combinedRadius(gs.hazards[i], gs) + Px(margin))

OutsideMargin(gs, x, y, margin) ==
    \/ x < Px(margin) \/ x > Px(gs.width - margin)
    \/ y < Px(margin) \/ y > Px(gs.height - margin)

\* calculateEscapeDirections: the actions 1..8, in order, whose point 100 px
\* ahead is inside the 50 px margin and clear of every hazard by 60 px
EscapeSafe(gs, a) ==
    \E v \in {actionVectors[a + 1]} :
      \E x \in {AlongX(gs, v, 100)}, y \in {AlongY(gs, v, 100)} :
        ~OutsideMargin(gs, x, y, 50) /\ ~NearHazard(gs, x, y, 60)

calculateEscapeDirections(gs) ==
    SelectSeq(<<1, 2, 3, 4, 5, 6, 7, 8>>, LAMBDA a : EscapeSafe(gs, a))

analyzeRealTimeThreat(gs) ==
    The({ [immediateDanger |-> maxThreatLevel > 800,
           highRisk |-> maxThreatLevel > 500,
           predictedDanger |-> predictedMaxThreat > 600,
           dangerLevel |-> maxThreatLevel,
           predictedDangerLevel |-> predictedMaxThreat,
           nearestThreat |-> nearestThreatIndex(gs),
           escapeDirections |-> calculateEscapeDirections(gs)] :
            maxThreatLevel \in
              {SeqMax([i \in 1..Len(gs.hazards) |->
                         Max2(CurrentThreat(gs.hazards[i], gs),
                              AlignedThreat(gs.hazards[i], gs))])},
            predictedMaxThreat \in
              {SeqMax([i \in 1..Len(gs.hazards) |-> PredictedThreat(gs.hazards[i], gs)])} })

----------------------------------------------------------------------------
(* Turning a direction into an action *)

\* round(atan2(dy, dx) / (pi / 4)): the number of the 45-degree sector the
\* vector falls in, from -4 to 4.  A vector makes less than 22.5 degrees
\* with the x axis iff |dy| < (sqrt 2 - 1)|dx| iff (|dx| + |dy|)^2 < 2 dx^2.
\* The angle does not depend on the length of the vector, so the callers
\* pass the vector before it is normalised.
SectorOf(dx, dy) ==
    LET ax == Abs(dx)
        ay == Abs(dy)
        s == IF (ax + ay) * (ax + ay) < 2 * ax * ax THEN 0
             ELSE IF (ax + ay) * (ax + ay) < 2 * ay * ay THEN 2
             ELSE 1
    IN IF dx = 0 /\ dy = 0 THEN 0
       ELSE IF dy >= 0 THEN (IF dx >= 0 THEN s ELSE 4 - s)
       ELSE (IF dx >= 0 THEN -s ELSE s - 4)

\* the actionMap of getActionForDirection, indexed from sector 0
directionActionMap == <<2, 6, 3, 5, 1, 7, 4, 8>>

getActionForDirection(dx, dy) ==
    directionActionMap[((SectorOf(dx, dy) + 8) % 8) + 1]

----------------------------------------------------------------------------
(* Action selection *)

CenterX(gs) == gs.width \div 2
CenterY(gs) == gs.height \div 2

\* squared distances in pixels, for quantities taken from raw coordinates
PxDistSq(dx, dy) == dx * dx + dy * dy
DistToCenterSq(gs) ==
    PxDistSq(gs.player.x - CenterX(gs), gs.player.y - CenterY(gs))
MaxCenterDistSq(gs) == PxDistSq(CenterX(gs), CenterY(gs))

minBoundaryDist(gs) ==
    Min2(Min2(gs.player.x, gs.width - gs.player.x),
         Min2(gs.player.y, gs.height - gs.player.y))

\* getBestCenterAction: the safe movement action best aligned with the
\* direction to the centre; 1 when none is safe
CenterScore(gs, a) ==
    actionVectors[a + 1][1] * (CenterX(gs) - gs.player.x)
    + actionVectors[a + 1][2] * (CenterY(gs) - gs.player.y)

CenterSafe(gs, a) ==
    ~NearHazard(gs, AlongX(gs, actionVectors[a + 1], 80),
                    AlongY(gs, actionVectors[a + 1], 80), 60)

getBestCenterAction(gs) ==
    IF DistToCenterSq(gs) < 10 * 10 THEN 0
    ELSE The({ IF safe = {} THEN 1
               ELSE CHOOSE a \in safe :
                      \A b \in safe : score[b] < score[a] \/ (score[b] = score[a] /\ a <= b) :
                 safe \in {{a \in 1..8 : CenterSafe(gs, a)}},
                 score \in {[a \in 1..8 |-> CenterScore(gs, a)]} })

\* squared distance from the point 120 px along action a to the nearest
\* hazard
EscapeClearance(gs, a) ==
    The({ CHOOSE d \in ds : \A e \in ds : d <= e :
            ds \in {The({ {DistSq(x - Px(gs.hazards[i].x), y - Px(gs.hazards[i].y)) :
                             i \in 1..Len(gs.hazards)} :
                           x \in {AlongX(gs, actionVectors[a + 1], 120)},
                           y \in {AlongY(gs, actionVectors[a + 1], 120)} })} })

getEmergencyAvoidanceAction(gs, threatAnalysis) ==
    LET esc == threatAnalysis.escapeDirections
        n == threatAnalysis.nearestThreat
    IN IF Len(esc) > 0
       THEN The({ The({ IF clearance[best] > 0 THEN esc[best] ELSE esc[1] :
                          best \in {CHOOSE k \in 1..Len(esc) :
                                      \A j \in 1..Len(esc) :
                                         \/ clearance[j] < clearance[k]
                                         \/ (clearance[j] = clearance[k] /\ k <= j)} }) :
                    clearance \in {[k \in 1..Len(esc) |-> EscapeClearance(gs, esc[k])]} })
       ELSE IF n = 0 THEN 1
       ELSE The({ IF dx # 0 \/ dy # 0 THEN getActionForDirection(-dx, -dy) ELSE 1 :
                    dx \in {HazardDX(gs.hazards[n], gs)},
                    dy \in {HazardDY(gs.hazards[n], gs)} })

\* getPredictiveAvoidanceAction: the direction, 100 px ahead inside the 80 px
\* margin, with the best safety against the hazards' positions 0.7 s ahead
\* the factor the position of hazard h 0.7 s ahead puts on the safety of
\* the point (x, y)
PredictiveFactor(gs, h, x, y) ==
    The({ The({ IF HypotLess(dx, dy, sd)
                THEN Max2(100, (Hypot(dx, dy) * Milli) \div sd)
                ELSE Milli :
                  dx \in {x - p.x}, dy \in {y - p.y},
                  sd \in {combinedRadius(h, gs) + Px(70)} }) :
            p \in {predictEnemyPositionPhysics(h, gs, 700)} })

\* the running product safety *= factor over the first i hazards, from 1.0
RECURSIVE FactorProduct(_, _, _)
FactorProduct(fs, i, one) ==
    IF i = 0 THEN 1000 ELSE (FactorProduct(fs, i - 1, one) * fs[i]) \div one

PredictiveSafety(gs, a) ==
    The({ FactorProduct([i \in 1..Len(gs.hazards) |->
                            PredictiveFactor(gs, gs.hazards[i], x, y)],
                        Len(gs.hazards), Milli) :
            x \in {AlongX(gs, actionVectors[a + 1], 100)},
            y \in {AlongY(gs, actionVectors[a + 1], 100)} })

\* bestDirection of getPredictiveAvoidanceAction; it starts as (0, 0)
predictiveBestDirection(gs) ==
    The({ The({ IF cand = {} THEN <<0, 0>>
                ELSE actionVectors[
                       (CHOOSE c \in cand :
                          \A b \in cand :
                             safety[b] < safety[c] \/ (safety[b] = safety[c] /\ c <= b)) + 1] :
                  cand \in {{a \in 1..8 :
                              /\ \E v \in {actionVectors[a + 1]} :
                                    ~OutsideMargin(gs, AlongX(gs, v, 100),
                                                       AlongY(gs, v, 100), 80)
                              /\ safety[a] > 0}} }) :
            safety \in {[a \in 1..8 |-> PredictiveSafety(gs, a)]} })

getPredictiveAvoidanceAction(gs, threatAnalysis) ==
    The({ getActionForDirection(bestDirection[1], bestDirection[2]) :
            bestDirection \in {predictiveBestDirection(gs)} })

\* index of the first most probable movement action of a policy
BestMovementAction(policy) ==
    CHOOSE a \in 1..8 :
        \A b \in 1..8 : policy[b + 1] < policy[a + 1]
                        \/ (policy[b + 1] = policy[a + 1] /\ a <= b)

getIntelligentCenterAction(gs, policy, threatAnalysis) ==
    IF 25 * DistToCenterSq(gs) > 9 * MaxCenterDistSq(gs)
    THEN getActionForDirection(CenterX(gs) - gs.player.x, CenterY(gs) - gs.player.y)
    ELSE BestMovementAction(policy)

----------------------------------------------------------------------------
(* The override passes that follow the choice of an action *)

\* the test of applyAdvancedSafetyChecks: the point 80 px along the action
\* lies outside the 40 px margin, or within 30 px of a hazard's combined
\* radius
CrossesBoundary(gs, a) ==
    OutsideMargin(gs, AlongX(gs, actionVectors[a + 1], 80),
                      AlongY(gs, actionVectors[a + 1], 80), 40)

HitsHazard(gs, a) ==
    NearHazard(gs, AlongX(gs, actionVectors[a + 1], 80),
                   AlongY(gs, actionVectors[a + 1], 80), 30)

applyAdvancedSafetyChecks(gs, action, threatAnalysis) ==
    IF CrossesBoundary(gs, action) THEN getBestCenterAction(gs)
    ELSE IF HitsHazard(gs, action) /\ Len(threatAnalysis.escapeDirections) > 0
         THEN threatAnalysis.escapeDirections[1]
    ELSE action

\* applyBoundaryAvoidance; coin is the outcome of Math.random() < 0.3
\* does applyBoundaryAvoidance replace the action: the player is within
\* 60 px of the boundary, or within 120 px and 60 px along the action nearer
\* to it or farther from the centre, or within 200 px, far from the centre
\* and Math.random() falls under 0.3; drawn tells whether that last test,
\* the one that consults Math.random(), is the one reached
BoundaryOverride(gs, mv, boundaryDist, coin, drawn) ==
    IF boundaryDist < 60 THEN ~drawn
    ELSE IF /\ boundaryDist < 120
            /\ \E futureX \in {gs.player.x + mv[1] * 60},
                  futureY \in {gs.player.y + mv[2] * 60} :
                 \/ Min2(Min2(futureX, gs.width - futureX),
                         Min2(futureY, gs.height - futureY)) < boundaryDist
                 \/ PxDistSq(futureX - CenterX(gs), futureY - CenterY(gs))
                      > DistToCenterSq(gs)
         THEN ~drawn
    ELSE /\ boundaryDist < 200
         /\ 16 * DistToCenterSq(gs) > gs.width * gs.width
         /\ coin

applyBoundaryAvoidance(gs, action, coin) ==
    IF BoundaryOverride(gs, actionMap[action + 1], minBoundaryDist(gs), coin, FALSE)
    THEN getBestCenterAction(gs)
    ELSE action

\* does applyBoundaryAvoidance consult Math.random() for this state
BoundaryCoinUsed(gs, action) ==
    BoundaryOverride(gs, actionMap[action + 1], minBoundaryDist(gs), TRUE, TRUE)

\* evaluateDirectionSafety for a direction with integer components:
\* eight steps of 30 px, hazards advanced 0.5 s per step
maxMemorySize == 10

DirMinSafe(gs, h) ==
    combinedRadius(h, gs) + Px(35)
    + (IF h.baseSpeed > 2 THEN Px(15) ELSE 0)
    + (IF h.r > 15 THEN ((h.r - 15) * 12 * U) \div 10 ELSE 0)

\* the factor a hazard at distance (dx, dy), fd in length, puts on the
\* safety of a step
DirSafetyFactor(dx, dy, fd, minSafe, riskMul, timeWeight) ==
    LET dangerLevel == ((minSafe - fd) * Milli) \div minSafe
        finalRisk == (((dangerLevel * riskMul) \div Milli) * timeWeight) \div Milli
        riskLevel == ((2 * minSafe - fd) * Milli) \div minSafe
    IN IF HypotLess(dx, dy, minSafe) THEN Max2(50, 1000 - (finalRisk * 8) \div 10)
       ELSE IF HypotLess(dx, dy, 2 * minSafe) THEN Max2(400, 1000 - (riskLevel * 3) \div 10)
       ELSE Milli

DirSafetyVsHazard(gs, h, fx, fy, step, safety) ==
    The({ (safety * DirSafetyFactor(p.x - fx, p.y - fy, Hypot(p.x - fx, p.y - fy),
                                    DirMinSafe(gs, h),
                                    ((IF h.kind = "tracker" THEN 1500 ELSE 1000)
                                     * (IF h.baseSpeed * 2 > 5 THEN 13 ELSE 10)) \div 10,
                                    Max2(500, 1000 - (step - 1) * 100))) \div Milli :
            p \in {DirSafetyHazardAt(h, fx, fy, step)} })

RECURSIVE DirSafetyHazards(_, _, _, _, _, _)
DirSafetyHazards(gs, i, fx, fy, step, safety) ==
    IF i > Len(gs.hazards) THEN safety
    ELSE DirSafetyHazards(gs, i + 1, fx, fy, step,
                          DirSafetyVsHazard(gs, gs.hazards[i], fx, fy, step, safety))

RECURSIVE DirSafetySteps(_, _, _, _)
DirSafetySteps(gs, dir, step, safety) ==
    IF step > 8 THEN safety
    ELSE The({ IF OutsideMargin(gs, fx, fy, 60) THEN (safety * 3) \div 10
               ELSE The({ IF s < 100 THEN s ELSE DirSafetySteps(gs, dir, step + 1, s) :
                            s \in {DirSafetyHazards(gs, 1, fx, fy, step, safety)} }) :
                 fx \in {Px(gs.player.x + dir[1] * 30 * step)},
                 fy \in {Px(gs.player.y + dir[2] * 30 * step)} })

evaluateDirectionSafety(gs, dir) == Max2(10, DirSafetySteps(gs, dir, 1, 1000))

\* findAlternativeActions(...)[0]: the safest movement action other than
\* the original one, the first of them on a tie
findAlternativeActions(gs, originalAction) ==
    The({ CHOOSE a \in alts :
            \A b \in alts : safety[b] < safety[a] \/ (safety[b] = safety[a] /\ a <= b) :
            alts \in {(1..8) \ {originalAction}},
            safety \in {[a \in 1..8 |-> evaluateDirectionSafety(gs, actionMap[a + 1])]} })

\* updatePositionMemory
updatePositionMemory(mem, x, y, time) ==
    LET pushed == Append(mem, [x |-> x, y |-> y, time |-> time])
        kept == SelectSeq(pushed, LAMBDA p : p.time > time - 3000)
    IN IF Len(kept) > maxMemorySize
       THEN SubSeq(kept, Len(kept) - maxMemorySize + 1, Len(kept))
       ELSE kept

\* isOscillatingMovement: two or more there-and-back triples among the last
\* six remembered positions
BackAndForth(r, i) ==
    /\ ~HypotLess(Px(r[i].x - r[i - 1].x), Px(r[i].y - r[i - 1].y), Px(30))
    /\ DistSq(Px(r[i].x - r[i - 1].x), Px(r[i].y - r[i - 1].y)) # SqSat(Px(30))
    /\ ~HypotLess(Px(r[i + 1].x - r[i].x), Px(r[i + 1].y - r[i].y), Px(30))
    /\ DistSq(Px(r[i + 1].x - r[i].x), Px(r[i + 1].y - r[i].y)) # SqSat(Px(30))
    /\ HypotLess(Px(r[i + 1].x - r[i - 1].x), Px(r[i + 1].y - r[i - 1].y), Px(15))

isOscillatingMovement(mem) ==
    /\ Len(mem) >= 4
    /\ \E r \in {IF Len(mem) > 6 THEN SubSeq(mem, Len(mem) - 5, Len(mem)) ELSE mem} :
          Cardinality({i \in 2..(Len(r) - 1) : BackAndForth(r, i)}) >= 2

nearBoundary(gs) ==
    \/ gs.player.x < 150 \/ gs.player.x > gs.width - 150
    \/ gs.player.y < 150 \/ gs.player.y > gs.height - 150

\* the action applyAntiOscillationMemory returns; mem is recentPositions
\* after updatePositionMemory
applyAntiOscillationMemory(gs, action, mem) ==
    IF nearBoundary(gs) /\ isOscillatingMovement(mem)
    THEN findAlternativeActions(gs, action)
    ELSE action

\* updateBorderAvoidanceMemory
updateBorderAvoidanceMemory(bmem, actionVec, time) ==
    LET pushed == Append(bmem, [direction |-> actionVec, penalty |-> 500, time |-> time])
        kept == SelectSeq(pushed, LAMBDA m : m.time > time - 5000)
    IN IF Len(kept) > maxMemorySize
       THEN SubSeq(kept, Len(kept) - maxMemorySize + 1, Len(kept))
       ELSE kept

----------------------------------------------------------------------------
(* Pickup analysis *)

\* currentHealth <= pct / 100, with currentHealth = lives / maxLives
HealthLE(gs, pct) == gs.lives * 100 <= pct * gs.maxLives

\* product of two positive fixed-point numbers; a product of positive
\* doubles of this size is positive, so the result is at least one unit
MulPos(a, b) == IF a <= 0 \/ b <= 0 THEN 0 ELSE Max2(1, (a * b) \div Milli)

\* unit-less ratio a / b in thousandths, for lengths a, b
Ratio(a, b) == (a * Milli) \div b

PickupDX(p, gs) == Px(p.x) - Px(gs.player.x)
PickupDY(p, gs) == Px(p.y) - Px(gs.player.y)

RECURSIVE SeqSum(_, _)
SeqSum(s, k) == IF k = 0 THEN 0 ELSE SeqSum(s, k - 1) + s[k]

\* intensity[i] is -1 for a hazard farther than 200 px
calculateGlobalThreatLevel(gs) ==
    The({ The({ IF near = {} THEN 0
                ELSE SeqSum([i \in DOMAIN intensity |->
                               IF i \in near THEN intensity[i] ELSE 0],
                            Len(gs.hazards)) \div Cardinality(near) :
                  near \in {{i \in DOMAIN intensity : intensity[i] >= 0}} }) :
            intensity \in
              {[i \in 1..Len(gs.hazards) |->
                  The({ IF HypotLess(dx, dy, Px(200))
                        THEN Milli - Ratio(Hypot(dx, dy), Px(200))
                        ELSE -1 :
                          dx \in {HazardDX(gs.hazards[i], gs)},
                          dy \in {HazardDY(gs.hazards[i], gs)} })]} })

calculateDistanceScore(dx, dy) ==
    IF HypotLess(dx, dy, Px(50)) THEN 1000
    ELSE IF HypotLess(dx, dy, Px(100)) THEN 900
    ELSE IF HypotLess(dx, dy, Px(200)) THEN 700
    ELSE IF HypotLess(dx, dy, Px(300)) THEN 400
    ELSE Max2(100, (Milli * Px(150)) \div (Px(150) + Hypot(dx, dy)))

\* the types a world of the model can hold: 'heart' is what the game spawns
calculatePickupTypeValue(p, gs) ==
    CASE p.type = "health" ->
           (IF HealthLE(gs, 20) THEN 3000
            ELSE IF HealthLE(gs, 40) THEN 2500
            ELSE IF HealthLE(gs, 60) THEN 1800
            ELSE IF HealthLE(gs, 80) THEN 1200
            ELSE 600)
      [] p.type = "points" -> 700
      [] p.type = "power" -> 1400
      [] OTHER -> 1000

\* evaluateAdvancedPathSafety: fifteen points on the straight path, each
\* hazard advanced to the time the point is reached
PathHazardDanger(dx, dy, dangerRadius) ==
    IF HypotLess(dx, dy, dangerRadius)
    THEN Milli - Ratio(Hypot(dx, dy), dangerRadius)
    ELSE 0

PathStepDanger(gs, p, step) ==
    The({ SeqMax([i \in 1..Len(gs.hazards) |->
                    PathHazardDanger(
                        cx - (Px(gs.hazards[i].x) + (VelX(gs.hazards[i]) * step) \div 15),
                        cy - (Px(gs.hazards[i].y) + (VelY(gs.hazards[i]) * step) \div 15),
                        combinedRadius(gs.hazards[i], gs) + Px(80))]) :
            cx \in {Px(gs.player.x) + (PickupDX(p, gs) * step) \div 15},
            cy \in {Px(gs.player.y) + (PickupDY(p, gs) * step) \div 15} })

RECURSIVE PathSafetyProduct(_, _)
PathSafetyProduct(danger, step) ==
    IF step = 0 THEN 1000
    ELSE MulPos(PathSafetyProduct(danger, step - 1), Milli - (danger[step] * 8) \div 10)

evaluateAdvancedPathSafety(gs, p) ==
    The({ [safetyScore |-> PathSafetyProduct(danger, 15),
           criticalThreats |-> Cardinality({s \in 1..15 : danger[s] > 700})] :
            danger \in {[step \in 1..15 |-> PathStepDanger(gs, p, step)]} })

\* alignment of a hazard's heading with the direction from it to the pickup
PickupAlignment(h, p) ==
    The({ (h.dirX * dx + h.dirY * dy) \div Hypot(dx, dy) :
            dx \in {Px(p.x) - Px(h.x)}, dy \in {Px(p.y) - Px(h.y)} })

analyzeThreatTrend(gs, p) ==
    The({ IF near = {} THEN 0
          ELSE (-SeqSum([k \in 1..Len(gs.hazards) |->
                           IF k \in near THEN PickupAlignment(gs.hazards[k], p) ELSE 0],
                        Len(gs.hazards))) \div Cardinality(near) :
            near \in {{i \in 1..Len(gs.hazards) :
                         HypotLess(Px(p.x) - Px(gs.hazards[i].x),
                                   Px(p.y) - Px(gs.hazards[i].y), Px(300))}} })

evaluatePickupTiming(gs, p, globalThreatLevel) ==
    IF globalThreatLevel > 800 THEN 400
    ELSE IF globalThreatLevel > 600 THEN 700
    ELSE IF globalThreatLevel < 300 THEN 1200
    ELSE IF /\ DistToCenterSq(gs) < 150 * 150
            /\ PxDistSq(p.x - CenterX(gs), p.y - CenterY(gs)) > 200 * 200
         THEN 600
    ELSE Max2(300, Min2(1500, 1000 + analyzeThreatTrend(gs, p)))

analyzePickupCompetition(gs, p) ==
    FactorProduct(
        [k \in 1..Len(gs.hazards) |->
           IF /\ HypotLess(Px(p.x) - Px(gs.hazards[k].x), Px(p.y) - Px(gs.hazards[k].y),
                           Px(200))
              /\ PickupAlignment(gs.hazards[k], p) > 500
           THEN 7 ELSE 10],
        Len(gs.hazards), 10)

\* calculateEscapeRoutesFromPosition: how many of the eight points 100 px
\* around a position are inside the 50 px margin and 80 px clear of hazards
calculateEscapeRoutesFromPosition(gs, p) ==
    Cardinality({a \in 1..8 :
        \E v \in {actionVectors[a + 1]} :
          \E x \in {Px(p.x) + (v[1] * 100 * U) \div Milli},
             y \in {Px(p.y) + (v[2] * 100 * U) \div Milli} :
            /\ ~OutsideMargin(gs, x, y, 50)
            /\ \A i \in 1..Len(gs.hazards) :
                  ~HypotLess(x - Px(gs.hazards[i].x), y - Px(gs.hazards[i].y),
                             Px(gs.hazards[i].r + 80))})

findNearbyPickups(gs, k, radius) ==
    {j \in 1..Len(gs.pickups) :
        /\ j # k
        /\ PxDistSq(gs.pickups[j].x - gs.pickups[k].x,
                    gs.pickups[j].y - gs.pickups[k].y) <= radius * radius}

calculateStrategicValue(gs, k) ==
    The({ MulPos(MulPos(1200 - (Ratio(Isqrt(PxDistSq(p.x - CenterX(gs), p.y - CenterY(gs))
                                            * 100),
                                      Isqrt(MaxCenterDistSq(gs) * 100)) * 4) \div 10,
                        800 + calculateEscapeRoutesFromPosition(gs, p) * 100),
                 IF findNearbyPickups(gs, k, 150) # {} THEN 1300 ELSE 1000) :
            p \in {gs.pickups[k]} })

\* the score analyzePickupOpportunity gives pickup k
PickupScore(gs, k) ==
    The({ MulPos(MulPos(MulPos(MulPos(MulPos(
            calculateDistanceScore(PickupDX(p, gs), PickupDY(p, gs)),
            calculatePickupTypeValue(p, gs)),
            evaluateAdvancedPathSafety(gs, p).safetyScore),
            evaluatePickupTiming(gs, p, calculateGlobalThreatLevel(gs))),
            analyzePickupCompetition(gs, p)),
            calculateStrategicValue(gs, k)) :
            p \in {gs.pickups[k]} })

determinePickupStrategy(p, gs, pathSafety, globalThreatLevel) ==
    IF HealthLE(gs, 30) /\ p.type = "health" THEN "emergency_health"
    ELSE IF pathSafety.safetyScore > 800 /\ globalThreatLevel < 400 THEN "safe_opportunity"
    ELSE IF pathSafety.criticalThreats > 0 THEN "risky_dash"
    ELSE IF p.type = "shield" /\ ~HealthLE(gs, 60) THEN "defensive_preparation"
    ELSE "calculated_risk"

calculatePickupUrgency(p, gs, score, globalThreatLevel) ==
    LET base == IF p.type = "health"
                THEN (IF HealthLE(gs, 20) THEN 1000
                      ELSE IF HealthLE(gs, 40) THEN 800
                      ELSE IF HealthLE(gs, 60) THEN 500
                      ELSE 200)
                ELSE Min2(700, (score * 8) \div 10)
    IN Max2(0, Min2(1000, (base * (Milli - (globalThreatLevel * 3) \div 10)) \div Milli))

shouldPursuePickup(p, gs, score, globalThreatLevel) ==
    LET healing == p.type \in {"health", "heart"}
    IN IF HealthLE(gs, 33) /\ healing /\ score > 200 THEN TRUE
       ELSE IF HealthLE(gs, 60) /\ healing /\ score > 300 THEN TRUE
       ELSE IF globalThreatLevel > 700 THEN score > 1000 /\ (healing \/ p.type = "shield")
       ELSE IF globalThreatLevel > 400 THEN score > 600
       ELSE IF globalThreatLevel < 300 THEN score > 300
       ELSE score > 500

\* analyzePickupOpportunity; bestPickup is an index into gs.pickups, 0 for
\* null
PickupAnalysis(gs, best, score, g) ==
    IF best = 0
    THEN [bestPickup |-> 0, bestScore |-> 0, shouldPursue |-> FALSE, safePath |-> FALSE,
          urgency |-> 0, strategyType |-> "none", riskLevel |-> 0]
    ELSE The({ [bestPickup |-> best,
                bestScore |-> score,
                shouldPursue |-> shouldPursuePickup(p, gs, score, g),
                safePath |-> ps.safetyScore > 600,
                urgency |-> calculatePickupUrgency(p, gs, score, g),
                strategyType |-> determinePickupStrategy(p, gs, ps, g),
                riskLevel |-> Milli - ps.safetyScore] :
                 p \in {gs.pickups[best]},
                 ps \in {evaluateAdvancedPathSafety(gs, gs.pickups[best])} })

analyzePickupOpportunity(gs) ==
    The({ The({ PickupAnalysis(gs, best, IF best = 0 THEN 0 ELSE scores[best], g) :
                  best \in {IF \A k \in DOMAIN scores : scores[k] <= 0 THEN 0
                            ELSE CHOOSE k \in DOMAIN scores :
                                   \A j \in DOMAIN scores :
                                      \/ scores[j] < scores[k]
                                      \/ (scores[j] = scores[k] /\ k <= j)} }) :
            scores \in {[k \in 1..Len(gs.pickups) |-> PickupScore(gs, k)]},
            g \in {calculateGlobalThreatLevel(gs)} })

----------------------------------------------------------------------------
(* Pickup pursuit *)

\* cosines of the multiples of 45 and of 30 degrees, in thousandths; the
\* sine of the k-th angle is the cosine of the angle a quarter turn back
Cos8 == <<1000, 707, 0, -707, -1000, -707, 0, 707>>
Sin8 == <<0, 707, 1000, 707, 0, -707, -1000, -707>>
Cos12 == <<1000, 866, 500, 0, -500, -866, -1000, -866, -500, 0, 500, 866>>
Sin12 == <<0, 500, 866, 1000, 866, 500, 0, -500, -866, -1000, -866, -500>>

\* a vector scaled to length 1000
Normalized(dx, dy) ==
    The({ <<(dx * Milli) \div d, (dy * Milli) \div d>> : d \in {Hypot(dx, dy)} })

\* calculatePathRisk from the player along the offset (tx, ty), in units
calculatePathRisk(gs, tx, ty) ==
    SeqSum([i \in 1..10 |->
              The({ SeqMax([k \in 1..Len(gs.hazards) |->
                              PathHazardDanger(cx - Px(gs.hazards[k].x),
                                               cy - Px(gs.hazards[k].y),
                                               Px(gs.hazards[k].r + 100))]) :
                      cx \in {Px(gs.player.x) + (tx * i) \div 10},
                      cy \in {Px(gs.player.y) + (ty * i) \div 10} })],
           10) \div 10

\* the direction getEmergencyPickupAction turns into an action: towards the
\* pickup, blended with the direction away from a hazard within 120 px
EmergencyPickupDirection(gs, p) ==
    The({ IF near = {} THEN dir
          ELSE The({ <<(dir[1] * 7 + away[1] * 3) \div 10,
                       (dir[2] * 7 + away[2] * 3) \div 10>> :
                       away \in {The({ Normalized(-HazardDX(h, gs), -HazardDY(h, gs)) :
                                         h \in {gs.hazards[CHOOSE k \in near :
                                                             \A j \in near : j <= k]} })} }) :
            dir \in {Normalized(PickupDX(p, gs), PickupDY(p, gs))},
            near \in {{k \in 1..Len(gs.hazards) :
                         \E ax \in {HazardDX(gs.hazards[k], gs)},
                            ay \in {HazardDY(gs.hazards[k], gs)} :
                           HypotLess(ax, ay, Px(120)) /\ (ax # 0 \/ ay # 0)}} })

getEmergencyPickupAction(gs, p) ==
    The({ getActionForDirection(d[1], d[2]) : d \in {EmergencyPickupDirection(gs, p)} })

\* findAlternativePickupPaths: the approach points 60 px around the pickup
\* that lie inside the 50 px margin, as offsets from the player
ApproachOffset(gs, p, k) ==
    <<Px(p.x) + (Cos8[k] * 60 * U) \div Milli - Px(gs.player.x),
      Px(p.y) + (Sin8[k] * 60 * U) \div Milli - Px(gs.player.y)>>

findAlternativePickupPaths(gs, p) ==
    {k \in 1..8 :
        /\ ~OutsideMargin(gs, Px(p.x) + (Cos8[k] * 60 * U) \div Milli,
                              Px(p.y) + (Sin8[k] * 60 * U) \div Milli, 50)
        /\ ApproachOffset(gs, p, k) # <<0, 0>>}

SafePickupDirection(gs, p) ==
    The({ IF paths = {} THEN <<PickupDX(p, gs), PickupDY(p, gs)>>
          ELSE The({ offsets[CHOOSE k \in paths :
                               \A j \in paths :
                                  risk[k] < risk[j] \/ (risk[k] = risk[j] /\ k <= j)] :
                       risk \in {[k \in 1..8 |->
                                    calculatePathRisk(gs, offsets[k][1], offsets[k][2])]} }) :
            paths \in {findAlternativePickupPaths(gs, p)},
            offsets \in {[k \in 1..8 |-> ApproachOffset(gs, p, k)]} })

getSafePickupAction(gs, p) ==
    The({ getActionForDirection(d[1], d[2]) : d \in {SafePickupDirection(gs, p)} })

\* findSafeCorridor: is the straight path 30 px clear of every hazard 40 px
\* to either side, at the four inner fifths
CorridorClear(gs, dx, dy, perpX, perpY) ==
    \A i \in 1..4 : \A k \in 1..Len(gs.hazards) :
       \E cx \in {Px(gs.player.x) + (dx * i) \div 5 - Px(gs.hazards[k].x)},
          cy \in {Px(gs.player.y) + (dy * i) \div 5 - Px(gs.hazards[k].y)} :
         /\ ~HypotLess(cx + perpX, cy + perpY, Px(gs.hazards[k].r + 30))
         /\ ~HypotLess(cx - perpX, cy - perpY, Px(gs.hazards[k].r + 30))

findSafeCorridor(gs, p) ==
    \E dx \in {PickupDX(p, gs)}, dy \in {PickupDY(p, gs)} :
      /\ (dx # 0 \/ dy # 0)
      /\ \E n \in {Normalized(dx, dy)} :
            CorridorClear(gs, dx, dy, (-n[2] * 40 * U) \div Milli, (n[1] * 40 * U) \div Milli)

\* the direction to the pickup turned by -45, -22.5, 0, 22.5 and 45 degrees
DashCos == <<707, 924, 1000, 924, 707>>
DashSin == <<-707, -383, 0, 383, 707>>
DashDir(gs, p, k) ==
    The({ <<(n[1] * DashCos[k] - n[2] * DashSin[k]) \div Milli,
            (n[1] * DashSin[k] + n[2] * DashCos[k]) \div Milli>> :
            n \in {Normalized(PickupDX(p, gs), PickupDY(p, gs))} })

RiskyDashDirection(gs, p) ==
    IF findSafeCorridor(gs, p) THEN <<PickupDX(p, gs), PickupDY(p, gs)>>
    ELSE The({ The({ dirs[CHOOSE k \in 1..5 :
                            \A j \in 1..5 :
                               risk[k] < risk[j] \/ (risk[k] = risk[j] /\ k <= j)] :
                       risk \in {[k \in 1..5 |->
                                    calculatePathRisk(gs, (dirs[k][1] * 100 * U) \div Milli,
                                                          (dirs[k][2] * 100 * U) \div Milli)]} }) :
                 dirs \in {[k \in 1..5 |-> DashDir(gs, p, k)]} })

getRiskyDashAction(gs, p) ==
    The({ getActionForDirection(d[1], d[2]) : d \in {RiskyDashDirection(gs, p)} })

\* findSaferApproachPosition: index of the chosen candidate 120 px around
\* the pickup, 0 for null
ApproachPoint(p, k) ==
    <<Px(p.x) + (Cos12[k] * 120 * U) \div Milli, Px(p.y) + (Sin12[k] * 120 * U) \div Milli>>

ApproachSafety(gs, p, k) ==
    The({ FactorProduct(
              [i \in 1..Len(gs.hazards) |->
                 The({ IF HypotLess(dx, dy, r) THEN Ratio(Hypot(dx, dy), r) ELSE Milli :
                         dx \in {at[1] - Px(gs.hazards[i].x)},
                         dy \in {at[2] - Px(gs.hazards[i].y)},
                         r \in {Px(gs.hazards[i].r + 80)} })],
              Len(gs.hazards), Milli) :
            at \in {ApproachPoint(p, k)} })

findSaferApproachPosition(gs, p) ==
    The({ IF cands = {} THEN 0
          ELSE The({ IF safety[b] > 600 THEN b ELSE 0 :
                       b \in {CHOOSE k \in cands :
                                \A j \in cands :
                                   \/ safety[j] < safety[k]
                                   \/ (safety[j] = safety[k] /\ k <= j)} }) :
            cands \in {{k \in 1..12 :
                          \E at \in {ApproachPoint(p, k)} :
                            ~OutsideMargin(gs, at[1], at[2], 60)}},
            safety \in {[k \in 1..12 |-> ApproachSafety(gs, p, k)]} })

DefensivePickupDirection(gs, p) ==
    The({ IF s = 0 \/ calculateEscapeRoutesFromPosition(gs, p) >= 2
          THEN <<PickupDX(p, gs), PickupDY(p, gs)>>
          ELSE The({ IF to # <<0, 0>> THEN to ELSE <<PickupDX(p, gs), PickupDY(p, gs)>> :
                       to \in {<<ApproachPoint(p, s)[1] - Px(gs.player.x),
                                 ApproachPoint(p, s)[2] - Px(gs.player.y)>>} }) :
            s \in {findSaferApproachPosition(gs, p)} })

getDefensivePickupAction(gs, p) ==
    The({ getActionForDirection(d[1], d[2]) : d \in {DefensivePickupDirection(gs, p)} })

\* isPositionSafe, for a point in units
isPositionSafe(gs, x, y) == ~OutsideMargin(gs, x, y, 50) /\ ~NearHazard(gs, x, y, 70)

\* findDetourPath tries the fixed angles 60, -60, 90 and -90 degrees
detourAngles == << <<500, 866>>, <<500, -866>>, <<0, 1000>>, <<0, -1000>> >>

findDetourPath(gs) ==
    The({ IF ok = {} THEN 0 ELSE CHOOSE k \in ok : \A j \in ok : k <= j :
            ok \in {{k \in 1..4 :
                       isPositionSafe(gs, AlongX(gs, detourAngles[k], 100),
                                          AlongY(gs, detourAngles[k], 100))}} })

\* the direction getCalculatedRiskAction turns into an action, <<>> when it
\* returns 0 for want of a detour
CalculatedRiskDirection(gs, p) ==
    The({ IF pathRisk > 700
          THEN The({ IF d # 0 THEN detourAngles[d] ELSE <<>> : d \in {findDetourPath(gs)} })
          ELSE <<PickupDX(p, gs), PickupDY(p, gs)>> :
            pathRisk \in
              {The({ calculatePathRisk(gs, (n[1] * 80 * U) \div Milli,
                                           (n[2] * 80 * U) \div Milli) :
                       n \in {Normalized(PickupDX(p, gs), PickupDY(p, gs))} })} })

getCalculatedRiskAction(gs, p) ==
    The({ IF d = <<>> THEN 0 ELSE getActionForDirection(d[1], d[2]) :
            d \in {CalculatedRiskDirection(gs, p)} })

getSmartPickupAction(gs, pickupAnalysis) ==
    IF pickupAnalysis.bestPickup = 0 THEN 0
    ELSE LET p == gs.pickups[pickupAnalysis.bestPickup]
             strategy == pickupAnalysis.strategyType
         IN IF HypotLess(PickupDX(p, gs), PickupDY(p, gs), Px(25)) THEN 0
            ELSE CASE strategy = "emergency_health" -> getEmergencyPickupAction(gs, p)
                   [] strategy = "safe_opportunity" -> getSafePickupAction(gs, p)
                   [] strategy = "risky_dash" -> getRiskyDashAction(gs, p)
                   [] strategy = "defensive_preparation" -> getDefensivePickupAction(gs, p)
                   [] OTHER -> getCalculatedRiskAction(gs, p)

----------------------------------------------------------------------------
(* Speed and heuristic bias *)

\* nearestThreat > 180 && boundaryDistance > 120 && !isLowHealth
isSafeToStay(gs) ==
    /\ \A i \in 1..Len(gs.hazards) :
          /\ ~HypotLess(HazardDX(gs.hazards[i], gs), HazardDY(gs.hazards[i], gs), Px(180))
          /\ DistSq(HazardDX(gs.hazards[i], gs), HazardDY(gs.hazards[i], gs)) # SqSat(Px(180))
    /\ minBoundaryDist(gs) > 120
    /\ ~HealthLE(gs, 60)

calculatePickupSafety(gs, p) ==
    Max2(100,
         FactorProduct(
             [i \in 1..Len(gs.hazards) |->
                The({ IF HypotLess(dx, dy, Px(gs.hazards[i].r + 30)) THEN 3
                      ELSE IF HypotLess(dx, dy, Px(2 * (gs.hazards[i].r + 30))) THEN 7
                      ELSE 10 :
                        dx \in {Px(gs.hazards[i].x) - Px(p.x)},
                        dy \in {Px(gs.hazards[i].y) - Px(p.y)} })],
             Len(gs.hazards), 10))

\* does findNearestSafePickup return a pickup
findNearestSafePickup(gs) ==
    \E k \in 1..Len(gs.pickups) : calculatePickupSafety(gs, gs.pickups[k]) > 400

\* the terms of baseSpeed that come from the hazards; at[i] is the offset
\* of hazard i from the player
ThreatSpeed(gs, at) ==
    (IF \E i \in DOMAIN at :
           HypotLess(at[i][1], at[i][2], combinedRadius(gs.hazards[i], gs) + Px(40))
     THEN 2000 ELSE 0)
    + (SeqMax([i \in DOMAIN at |->
                 IF HypotLess(at[i][1], at[i][2], Px(250))
                 THEN ExpNeg(Ratio(Hypot(at[i][1], at[i][2]), Px(70)))
                 ELSE 0]) * 18) \div 10
    + Cardinality({i \in DOMAIN at : HypotLess(at[i][1], at[i][2], Px(120))}) * 600
    + Cardinality({i \in DOMAIN at :
                     /\ gs.hazards[i].kind = "tracker"
                     /\ HypotLess(at[i][1], at[i][2], Px(200))}) * 1500

\* baseSpeed before the terms that depend on the action
SpeedDemand(gs) ==
    (IF HealthLE(gs, 30) THEN 3200 ELSE IF HealthLE(gs, 60) THEN 2600 ELSE 2000)
    + ThreatSpeed(gs, [i \in 1..Len(gs.hazards) |->
                         <<HazardDX(gs.hazards[i], gs), HazardDY(gs.hazards[i], gs)>>])
    + The({ IF d < 100 THEN (100 - d) * 15 ELSE 0 : d \in {minBoundaryDist(gs)} })
    + (IF HealthLE(gs, 60) /\ Len(gs.pickups) > 0 /\ findNearestSafePickup(gs)
       THEN (IF HealthLE(gs, 30) THEN 800 ELSE 500)
       ELSE 0)

calculateUltraFastSpeed(gs, action) ==
    Max2(1000,
         Min2(5000,
              IF action = 0 /\ isSafeToStay(gs) THEN 0
              ELSE The({ IF action = 0 THEN Max2(1800, s) ELSE s + 300 :
                           s \in {SpeedDemand(gs)} })))

\* getUltraResponseBias: one entry per action.  The entries carry the
\* terms of the bonus that are computed from the action alone: the reward
\* for getting closer to the centre, the movement reward and the penalty
\* for holding where it is not safe to stay.
CentreReward(cur, fut) ==
    IF fut < cur THEN (2 * Ratio(cur - fut, Max2(10, cur))) ELSE 0

BiasOfAction(gs, a) ==
    The({ CentreReward(Isqrt(DistToCenterSq(gs) * 100),
                       Hypot(AlongX(gs, v, 60) - Px(CenterX(gs)),
                             AlongY(gs, v, 60) - Px(CenterY(gs))) \div (U \div 10)) :
            v \in {actionVectors[a + 1]} })
    + (IF a # 0 THEN 1500 ELSE 0)
    + (IF a = 0 /\ ~isSafeToStay(gs) THEN -6000 ELSE 0)

getUltraResponseBias(gs) == [i \in 1..9 |-> BiasOfAction(gs, i - 1)]

----------------------------------------------------------------------------
(* Feature extraction.  A feature is modelled by what it is: the block    *)
(* that pushed it, the slot inside the block and its position in the     *)
(* slot.  The trailing zeros extractFeatures appends are block "pad".    *)

Slot(b, s, f) == [block |-> b, slot |-> s, field |-> f]

\* the eight features extractFeatures pushes itself
basicFeatures == [i \in 1..8 |-> Slot("basic", 1, i)]

\* analyzePredictiveContext: three indicators for each of four horizons
analyzePredictiveContext(gs) ==
    [i \in 1..12 |-> Slot("predictive", ((i - 1) \div 3) + 1, ((i - 1) % 3) + 1)]

analyzeCenterPositioning(gs) == [i \in 1..10 |-> Slot("center", 1, i)]

\* extractAllEnemyInformation: twenty slots of six, the nearest hazards
\* first, zeros where there is no hazard
maxEnemies == 20

extractAllEnemyInformation(gs) ==
    [i \in 1..(maxEnemies * 6) |->
        LET s == ((i - 1) \div 6) + 1
        IN IF s <= Len(gs.hazards) THEN Slot("enemy", s, ((i - 1) % 6) + 1)
           ELSE Slot("enemy", s, 0)]

\* extractPickupPositions: five slots of four
extractPickupPositions(gs) ==
    [i \in 1..20 |->
        LET s == ((i - 1) \div 4) + 1
        IN IF s <= Len(gs.pickups) THEN Slot("pickup", s, ((i - 1) % 4) + 1)
           ELSE Slot("pickup", s, 0)]

\* analyzeGlobalThreats: twelve zeros without hazards, else three distances,
\* the nearby ratio, four directional threats, time to collision, tracker
\* threat and clustering
analyzeGlobalThreats(gs) ==
    IF Len(gs.hazards) = 0 THEN [i \in 1..12 |-> Slot("threat", 1, 0)]
    ELSE [i \in 1..(3 + 1 + 4 + 1 + 1 + 1) |-> Slot("threat", 1, i)]

\* analyzeSafetyAndBoundary: four boundary distances, four quadrant safeties
\* and the safest direction
analyzeSafetyAndBoundary(gs) == [i \in 1..(4 + 4 + 2) |-> Slot("safety", 1, i)]

RECURSIVE PadTo(_, _)
PadTo(s, n) == IF Len(s) < n THEN PadTo(Append(s, Slot("pad", 1, 0)), n) ELSE s

\* extractFeatures without the loop that pads the vector with zeros
extractFeaturesUnpadded(gs) ==
    LET pushed == basicFeatures
                  \o analyzePredictiveContext(gs)
                  \o analyzeCenterPositioning(gs)
                  \o extractAllEnemyInformation(gs)
                  \o extractPickupPositions(gs)
                  \o analyzeGlobalThreats(gs)
                  \o analyzeSafetyAndBoundary(gs)
    IN SubSeq(pushed, 1, Min2(200, Len(pushed)))

extractFeatures(gs) ==
    LET pushed == basicFeatures
                  \o analyzePredictiveContext(gs)
                  \o analyzeCenterPositioning(gs)
                  \o extractAllEnemyInformation(gs)
                  \o extractPickupPositions(gs)
                  \o analyzeGlobalThreats(gs)
                  \o analyzeSafetyAndBoundary(gs)
    IN SubSeq(PadTo(pushed, 200), 1, 200)

----------------------------------------------------------------------------
(* The network.  A layer is modelled by the shape of its parameters:      *)
(* rows - does weights hold outputSize rows; cols - do the rows hold      *)
(* inputSize entries ("ok" all of them, "bad" none of them, "some" some   *)
(* but not all of them); biases - is biases an array.  A vector of        *)
(* activations is "zero" (all entries 0), "partial" (0 at the rows of     *)
(* wrong length, computed elsewhere) or "data" (it depends on the         *)
(* parameters, which are random or loaded numbers).  params names the      *)
(* numbers a layer holds: the time of the random draw that made them, or  *)
(* the number the document they were loaded from carries.                 *)

initCooldown == 2000

LayerNames == <<"inputLayer", "hiddenLayer1", "hiddenLayer2", "hiddenLayer3",
                "valueHead", "policyHead">>

\* NeuralLayer constructor, and the re-initialisation inside forward
NeuralLayer(now) ==
    [rows |-> "ok", cols |-> "ok", biases |-> "ok", lastInitTime |-> now, params |-> now]

ShapeMismatch(l) == l.rows # "ok" \/ l.cols # "ok"

\* a policy: probabilities in thousandths, index a + 1 for action a
UniformPolicy == [i \in 1..ACTION_COUNT |-> Milli \div ACTION_COUNT]
PeakedPolicy(a) == [i \in 1..ACTION_COUNT |-> IF i = a + 1 THEN 600 ELSE 50]
Policies == {UniformPolicy, PeakedPolicy(4)}
Values == {-500, 0, 500}

\* NeuralLayer.forward on an input of the declared length: the layer
\* afterwards and what comes out ("throw" for the TypeError of indexing
\* biases that are not an array)
LayerForward(l, now) ==
    LET cooled == now - l.lastInitTime > initCooldown
    IN IF l.rows # "ok" /\ ~cooled THEN [layer |-> l, out |-> "zero"]
       ELSE IF l.rows # "ok" THEN [layer |-> NeuralLayer(now), out |-> "data"]
       ELSE IF l.cols # "ok" /\ cooled THEN [layer |-> NeuralLayer(now), out |-> "data"]
       ELSE IF l.cols = "bad" THEN [layer |-> l, out |-> "zero"]
       ELSE IF l.biases # "ok" THEN [layer |-> l, out |-> "throw"]
       ELSE IF l.cols = "some" THEN [layer |-> l, out |-> "partial"]
       ELSE [layer |-> l, out |-> "data"]

\* the four trunk layers in turn, from layer k on; a throw skips the rest.
\* No length test after a layer can fail: a layer returns outputSize values.
RECURSIVE TrunkForward(_, _, _)
TrunkForward(n, k, now) ==
    IF k > 4 THEN [net |-> n, threw |-> FALSE]
    ELSE The({ IF r.out = "throw"
               THEN [net |-> [n EXCEPT ![LayerNames[k]] = r.layer], threw |-> TRUE]
               ELSE TrunkForward([n EXCEPT ![LayerNames[k]] = r.layer], k + 1, now) :
                 r \in {LayerForward(n[LayerNames[k]], now)} })

\* AdvancedDodgerAI.forward on a 200-long input: the possible results.
\* caught tells whether the catch clause produced the result.
ForwardFallback(n, caught) ==
    [net |-> n, value |-> 0, policy |-> UniformPolicy, raised |-> FALSE, caught |-> caught]

\* the policy head, on a network whose value head gave vout
PolicyOutcomes(n, vout, now) ==
    The({ IF p.out = "throw"
          THEN {ForwardFallback([n EXCEPT !.policyHead = p.layer], TRUE)}
          ELSE {[net |-> [n EXCEPT !.policyHead = p.layer], value |-> val, policy |-> pol,
                 raised |-> FALSE, caught |-> FALSE] :
                   val \in (IF vout = "zero" THEN {0} ELSE Values),
                   pol \in (IF p.out = "zero" THEN {UniformPolicy} ELSE Policies)} :
            p \in {LayerForward(n.policyHead, now)} })

\* the value head and then the policy head
HeadOutcomes(n, now) ==
    The({ IF v.out = "throw"
          THEN {ForwardFallback([n EXCEPT !.valueHead = v.layer], TRUE)}
          ELSE PolicyOutcomes([n EXCEPT !.valueHead = v.layer], v.out, now) :
            v \in {LayerForward(n.valueHead, now)} })

ForwardOutcomes(n, now) ==
    The({ IF t.threw THEN {ForwardFallback(t.net, TRUE)} ELSE HeadOutcomes(t.net, now) :
            t \in {TrunkForward(n, 1, now)} })

\* ensureWeightsInitialized replaces the layers whose row count is wrong
ensureWeightsInitialized(n, now) ==
    [name \in DOMAIN n |-> IF n[name].rows # "ok" THEN NeuralLayer(now) ELSE n[name]]

\* loadWeights with a fresh layer put wherever the document has none
loadWeightsRebuildingAbsent(n, doc, now) ==
    [name \in DOMAIN n |->
        IF doc[name].kind = "good"
        THEN [n[name] EXCEPT !.rows = "ok", !.cols = "ok", !.biases = "ok",
                             !.params = doc[name].params]
        ELSE NeuralLayer(now)]

\* loadWeights, the layers: a document gives, for each layer, nothing
\* ("absent") or a weights array of some shape with whatever it holds as
\* biases, and the numbers in them (params)
DocLayers == {"absent", "good", "fewRows", "shortRows", "someShortRows", "noBiases"}

loadWeights(n, doc, now) ==
    LET assigned == [name \in DOMAIN n |->
            CASE doc[name].kind = "absent" -> n[name]
              [] doc[name].kind = "good" ->
                   [n[name] EXCEPT !.rows = "ok", !.cols = "ok", !.biases = "ok",
                                   !.params = doc[name].params]
              [] doc[name].kind = "fewRows" ->
                   [n[name] EXCEPT !.rows = "bad", !.cols = "ok", !.biases = "ok",
                                   !.params = doc[name].params]
              [] doc[name].kind = "shortRows" ->
                   [n[name] EXCEPT !.rows = "ok", !.cols = "bad", !.biases = "ok",
                                   !.params = doc[name].params]
              [] doc[name].kind = "someShortRows" ->
                   [n[name] EXCEPT !.rows = "ok", !.cols = "some", !.biases = "ok",
                                   !.params = doc[name].params]
              [] OTHER ->
                   [n[name] EXCEPT !.rows = "ok", !.cols = "ok", !.biases = "missing",
                                   !.params = doc[name].params]]
    IN ensureWeightsInitialized(assigned, now)

\* a || d of JavaScript on a number that may be missing
OrElse(a, d) == IF a = Undefined \/ a = 0 THEN d ELSE a

\* the engine's statistics; explorationRate in thousandths
FreshMeta ==
    [episodeCount |-> 0, totalReward |-> 0, averagePerformance |-> 0,
     bestPerformance |-> 0, explorationRate |-> 100]

\* loadWeights, the metadata of the document
loadMetadata(m, dm) ==
    IF dm.present
    THEN [m EXCEPT !.episodeCount = OrElse(dm.episodes, 0),
                   !.averagePerformance = OrElse(dm.averagePerformance, 0),
                   !.explorationRate = OrElse(dm.explorationRate, 100)]
    ELSE m

\* the layer of a document that holds the weights and biases of layer l
LayerData(l) ==
    [kind |-> IF l.rows # "ok" THEN "fewRows"
              ELSE IF l.cols = "bad" THEN "shortRows"
              ELSE IF l.cols = "some" THEN "someShortRows"
              ELSE IF l.biases # "ok" THEN "noBiases"
              ELSE "good",
     params |-> l.params]

\* exportWeights: the text of the document.  A text is "garbage" (JSON.parse
\* throws), "null", or an "object" with layers and metadata; arrays of
\* finite numbers come back from JSON as they went in.
exportWeights(n, m) ==
    [kind |-> "object",
     layers |-> [name \in DOMAIN n |-> LayerData(n[name])],
     metadata |-> [present |-> TRUE, version |-> TRUE, episodes |-> m.episodeCount,
                   averagePerformance |-> m.averagePerformance,
                   bestPerformance |-> m.bestPerformance,
                   explorationRate |-> m.explorationRate]]

\* importWeights on engine state e = [net, meta]: the state afterwards and
\* the value returned
importWeights(e, text, now) ==
    IF text.kind = "object" /\ text.metadata.present /\ text.metadata.version
    THEN [net |-> loadWeights(e.net, text.layers, now),
          meta |-> loadMetadata(e.meta, text.metadata), returned |-> TRUE]
    ELSE [net |-> e.net, meta |-> e.meta, returned |-> FALSE]

\* resetWeights
resetWeights(e, now) ==
    [net |-> [name \in DOMAIN e.net |-> NeuralLayer(now)],
     meta |-> [e.meta EXCEPT !.episodeCount = 0, !.explorationRate = 300,
                             !.averagePerformance = 0, !.bestPerformance = 0]]

----------------------------------------------------------------------------
(* decide *)

\* updateCenterTracking
updateCenterTracking(ct, gs, action, now) ==
    The({ The({ [lastCenterDistance |-> distanceRatio,
                 timeAwayFromCenter |->
                     ct.timeAwayFromCenter + (IF distanceRatio > 500 THEN 1 ELSE 0),
                 totalCenterTime |->
                     ct.totalCenterTime + (IF distanceRatio > 500 THEN 0 ELSE 1),
                 forceBackToCenterCount |->
                     ct.forceBackToCenterCount
                     + (IF /\ now - ct.lastForceTime < 1000
                           /\ CenterScore(gs, action) * 10 > 300 * dist
                        THEN 1 ELSE 0),
                 lastForceTime |-> ct.lastForceTime] :
                  distanceRatio \in {Ratio(dist, Isqrt(MaxCenterDistSq(gs) * 100))} }) :
            dist \in {Isqrt(DistToCenterSq(gs) * 100)} })

\* the branch of the cascade decide takes
decideBranch(gs, threatAnalysis, pickupAnalysis) ==
    IF threatAnalysis.immediateDanger THEN "emergency"
    ELSE IF threatAnalysis.highRisk THEN "predictive"
    ELSE IF /\ pickupAnalysis.bestPickup # 0
            /\ \/ pickupAnalysis.urgency > 500
               \/ (HealthLE(gs, 60) /\ pickupAnalysis.urgency > 300)
               \/ (HealthLE(gs, 30) /\ pickupAnalysis.urgency > 100)
         THEN "pickup"
    ELSE "regular"

\* the action the cascade chooses before the override passes; explore is
\* the action drawn by the training exploration, 0 when none is drawn
firstChoice(gs, policy, threatAnalysis, pickupAnalysis, explore) ==
    LET branch == decideBranch(gs, threatAnalysis, pickupAnalysis)
    IN CASE branch = "emergency" -> getEmergencyAvoidanceAction(gs, threatAnalysis)
         [] branch = "predictive" -> getPredictiveAvoidanceAction(gs, threatAnalysis)
         [] branch = "pickup" -> getSmartPickupAction(gs, pickupAnalysis)
         [] OTHER ->
              IF explore # 0 THEN explore
              ELSE IF threatAnalysis.predictedDanger THEN BestMovementAction(policy)
              ELSE getIntelligentCenterAction(gs, policy, threatAnalysis)

\* the direction the taken branch hands to getActionForDirection to obtain
\* the action it chooses: <<dx, dy>>, or <<>> when the branch chooses its
\* action otherwise
desiredDirection(gs, threatAnalysis, pickupAnalysis, explore) ==
    LET branch == decideBranch(gs, threatAnalysis, pickupAnalysis)
        n == threatAnalysis.nearestThreat
    IN CASE branch = "emergency" ->
              IF /\ Len(threatAnalysis.escapeDirections) = 0
                 /\ n # 0
                 /\ (HazardDX(gs.hazards[n], gs) # 0 \/ HazardDY(gs.hazards[n], gs) # 0)
              THEN <<-HazardDX(gs.hazards[n], gs), -HazardDY(gs.hazards[n], gs)>>
              ELSE <<>>
         [] branch = "predictive" -> predictiveBestDirection(gs)
         [] branch = "pickup" -> <<>>
         [] OTHER ->
              IF /\ explore = 0
                 /\ ~threatAnalysis.predictedDanger
                 /\ 25 * DistToCenterSq(gs) > 9 * MaxCenterDistSq(gs)
              THEN <<CenterX(gs) - gs.player.x, CenterY(gs) - gs.player.y>>
              ELSE <<>>

\* everything one call of decide computes, from the world, its two
\* analyses, the policy the network returned, the two random draws, the
\* position memory and the time.  actionMap[action] is undefined for an
\* action outside the table, and reading its mvx raises a TypeError.
decide(gs, threatAnalysis, pickupAnalysis, policy, coin, explore, positions, now) ==
    The({ The({ The({ The({
        [gs |-> gs,
         policy |-> policy,
         threatAnalysis |-> threatAnalysis,
         pickupAnalysis |-> pickupAnalysis,
         branch |-> decideBranch(gs, threatAnalysis, pickupAnalysis),
         desired |-> desiredDirection(gs, threatAnalysis, pickupAnalysis, explore),
         chosen |-> chosen,
         checked |-> checked,
         bounded |-> bounded,
         oscillating |-> nearBoundary(gs) /\ isOscillatingMovement(mem),
         positions |-> mem,
         action |-> action,
         raised |-> action + 1 \notin DOMAIN actionMap,
         mvx |-> IF action + 1 \in DOMAIN actionMap THEN actionMap[action + 1][1] ELSE 0,
         mvy |-> IF action + 1 \in DOMAIN actionMap THEN actionMap[action + 1][2] ELSE 0,
         speed |-> calculateUltraFastSpeed(gs, action),
         hBias |-> getUltraResponseBias(gs),
         hStrength |-> 500,
         coin |-> coin,
         explore |-> explore] :
            action \in {applyAntiOscillationMemory(gs, bounded, mem)} }) :
            bounded \in {applyBoundaryAvoidance(gs, checked, coin)} }) :
            checked \in {applyAdvancedSafetyChecks(gs, chosen, threatAnalysis)} }) :
            chosen \in {firstChoice(gs, policy, threatAnalysis, pickupAnalysis, explore)},
            mem \in {updatePositionMemory(positions, gs.player.x, gs.player.y, now)} })

----------------------------------------------------------------------------
(* The worlds the engine is called on: a field of 400 x 300 px, a player   *)
(* of radius 12, hazards of radius 20 moving along an axis, pickups of     *)
(* the type the game spawns ('heart') and of types the engine knows.       *)

Field == [width |-> 400, height |-> 300]
PlayerShape == [r |-> 12, speed |-> 300]

\* lives and maxLives: a health of 20% and of 100%
Healths == { <<1, 5>>, <<3, 3>> }

Hazard(x, y, dirX, dirY) ==
    [x |-> x, y |-> y, r |-> 20, dirX |-> dirX, dirY |-> dirY,
     baseSpeed |-> 100, kind |-> "normal", t |-> 0, life |-> 10,
     turnRate |-> Undefined, zigFreq |-> 0, zigAmp |-> 0]

Pickup(x, y, type) ==
    [x |-> x, y |-> y, r |-> 10, life |-> 5, maxLife |-> 10, type |-> type]

\* the centre, a corner and a place near the right edge
PlayerPositions == { <<200, 150>>, <<30, 30>>, <<330, 150>> }

HazardPool ==
    << Hazard(240, 150, -1000, 0),
       Hazard(200, 250, 0, -1000),
       Hazard(60, 60, 1000, 0) >>

PickupPool ==
    << Pickup(260, 150, "heart"),
       Pickup(260, 150, "health"),
       Pickup(210, 150, "power") >>

\* the strictly increasing index sequences of length at most n over 1..m
RECURSIVE IncreasingSeqs(_, _)
IncreasingSeqs(m, n) ==
    IF n = 0 THEN {<<>>}
    ELSE LET shorter == IncreasingSeqs(m, n - 1)
         IN shorter \cup {Append(s, k) : s \in shorter, k \in 1..m}

StrictlyIncreasing(s) == \A i \in 1..(Len(s) - 1) : s[i] < s[i + 1]

HazardLists ==
    {[i \in 1..Len(s) |-> HazardPool[s[i]]] :
        s \in {q \in IncreasingSeqs(Len(HazardPool), MaxHazards) : StrictlyIncreasing(q)}}

PickupLists ==
    {[i \in 1..Len(s) |-> PickupPool[s[i]]] :
        s \in {q \in IncreasingSeqs(Len(PickupPool), MaxPickups) : StrictlyIncreasing(q)}}

GameState(pos, hazards, pickups, health) ==
    [width |-> Field.width, height |-> Field.height,
     player |-> [x |-> pos[1], y |-> pos[2], r |-> PlayerShape.r, speed |-> PlayerShape.speed],
     playerVel |-> [x |-> 0, y |-> 0],
     hazards |-> hazards, pickups |-> pickups,
     lives |-> health[1], maxLives |-> health[2], elapsed |-> 0]

DecideWorlds ==
    {GameState(pos, hs, ps, health) :
        pos \in PlayerPositions, hs \in HazardLists, ps \in PickupLists, health \in Healths}

\* the draws of the training exploration: 0 for none, else the action drawn
ExploreDraws == {0, 8}

\* Date.now() when the engine is constructed, and the time between calls
Timing == [start |-> 10000, tick |-> 400, netTick |-> 1000]
StartTime == Timing.start
TickMs == Timing.tick

\* position memories earlier calls can have left: none, or a walk back and
\* forth between the player's position and the point 40 px to its right
PositionHistories(gs) ==
    {<<>>,
     [i \in 1..3 |-> [x |-> gs.player.x + (IF i = 2 THEN 0 ELSE 40), y |-> gs.player.y,
                      time |-> StartTime - (4 - i) * TickMs]]}

NoDecision ==
    [gs |-> GameState(<<200, 150>>, <<>>, <<>>, <<3, 3>>), policy |-> UniformPolicy,
     threatAnalysis |->
         [immediateDanger |-> FALSE, highRisk |-> FALSE, predictedDanger |-> FALSE,
          dangerLevel |-> 0, predictedDangerLevel |-> 0, nearestThreat |-> 0,
          escapeDirections |-> <<1, 2, 3, 4, 5, 6, 7, 8>>],
     pickupAnalysis |->
         [bestPickup |-> 0, bestScore |-> 0, shouldPursue |-> FALSE, safePath |-> FALSE,
          urgency |-> 0, strategyType |-> "none", riskLevel |-> 0],
     branch |-> "none", desired |-> <<>>, chosen |-> 0, checked |-> 0, bounded |-> 0, oscillating |-> FALSE,
     positions |-> <<>>, action |-> 0, raised |-> FALSE, mvx |-> 0, mvy |-> 0, speed |-> 0,
     hBias |-> <<>>, hStrength |-> 0, coin |-> FALSE, explore |-> 0]

NoForward == [value |-> 0, policy |-> UniformPolicy, raised |-> FALSE, caught |-> FALSE,
              mismatched |-> FALSE, called |-> FALSE, now |-> 0,
              inputBefore |-> NeuralLayer(0),
              inputCall |-> [layer |-> NeuralLayer(0), out |-> "data"]]

FreshNet == [name \in {LayerNames[k] : k \in 1..Len(LayerNames)} |-> NeuralLayer(StartTime)]

\* a weights document with one layer of the given kind, the others good
Doc(layer, kind) ==
    [name \in DOMAIN FreshNet |->
        [kind |-> IF name = layer THEN kind ELSE "good", params |-> 1]]

\* the networks decide runs on: as constructed, or after loading a document
\* that lacks the biases of a hidden layer
DecideNets == {FreshNet, loadWeights(FreshNet, Doc("hiddenLayer1", "noBiases"), StartTime)}

\* no prediction made yet
NoPrediction ==
    [called |-> FALSE, hazard |-> Hazard(0, 0, 0, 0), step |-> 0,
     atStep |-> [x |-> 0, y |-> 0], atSecond |-> [x |-> 0, y |-> 0],
     enemyInfo |-> [x |-> 0, y |-> 0], dirSafety |-> [x |-> 0, y |-> 0],
     target |-> [x |-> 0, y |-> 0, lenSq |-> 0]]

\* a text that is no document: kind is "missing" (no text at all, or the
\* empty text), "garbage" (JSON.parse throws), "null", or "object" for an
\* object without layers and metadata
NoMetadata ==
    [present |-> FALSE, version |-> FALSE, episodes |-> Undefined,
     averagePerformance |-> Undefined, bestPerformance |-> Undefined,
     explorationRate |-> Undefined]

PlainText(kind) ==
    [kind |-> kind,
     layers |-> [name \in DOMAIN FreshNet |-> [kind |-> "absent", params |-> 0]],
     metadata |-> NoMetadata]

\* no exportWeights() call yet
NoExport == [made |-> FALSE, text |-> PlainText("missing"), net |-> FreshNet, meta |-> FreshMeta]

NoOp ==
    [name |-> "none", raised |-> FALSE, returned |-> FALSE, text |-> PlainText("missing"),
     netBefore |-> FreshNet, metaBefore |-> FreshMeta, fetch |-> "none",
     presetReturned |-> FALSE, presetImported |-> FALSE, storageTried |-> FALSE,
     storageReturned |-> FALSE, storageImported |-> FALSE, hasCustomWeights |-> FALSE]

\* what a key of localStorage holds for the weight store: kind is "missing",
\* "garbage", "null", "number", "object", or "list" with the items
Stored(kind, items) == [kind |-> kind, items |-> items]

EngineIds == {1, 2}

\* an instance that has not been constructed; seen lists every entry that
\* has been in its store
\* experiences is the size of its experience buffer; shares is the id of
\* the stored snapshot whose arrays its layers hold (0 for arrays of their
\* own); originals lists the snapshots as they were when the store got
\* them; since and highest are the scores passed since the last reset
\* (their sum and number) and the highest score passed since then
NoEngine ==
    [alive |-> FALSE, net |-> FreshNet, meta |-> FreshMeta,
     weights |-> Stored("list", <<>>), seen |-> <<>>, persisted |-> FALSE,
     experiences |-> 0, shares |-> 0, originals |-> <<>>,
     since |-> [reset |-> FALSE, sum |-> 0, count |-> 0], highest |-> Undefined]

\* trained says that train() was called; for each save of the call,
\* heldBefore is the list the store held before it and loadedAfter what
\* WeightManager.loadWeights(id) returns right after it
NoStoreOp ==
    [name |-> "none", engine |-> 0, raised |-> FALSE, storedBefore |-> Stored("missing", <<>>),
     overflowed |-> FALSE, saved |-> <<>>, heldBefore |-> <<>>, loadedAfter |-> <<>>,
     trained |-> FALSE,
     score |-> 0, highestBefore |-> Undefined, count |-> 0]

\* new ExperienceBuffer(); added lists the experiences added since the
\* buffer was constructed or cleared, sampled is the last sample drawn
\* and the buffer it was drawn from
NoReplay ==
    [buffer |-> <<>>, position |-> 0, added |-> <<>>,
     sampled |-> [called |-> FALSE, batchSize |-> 0, items |-> <<>>,
                  buffer |-> <<>>, position |-> 0]]

\* no game loop runs
NoLoop ==
    [mode |-> "none", frames |-> 0, elapsed |-> 0, aiDecideCD |-> 0,
     aiCurrentAction |-> [mvx |-> 0, mvy |-> 0, speed |-> 0],
     latest |-> [mvx |-> 0, mvy |-> 0, speed |-> 0], decided |-> FALSE, decidedNow |-> FALSE,
     given |-> [mvx |-> 0, mvy |-> 0, speed |-> 0],
     ai |-> [x |-> 0, y |-> 0, velX |-> 0, velY |-> 0],
     human |-> [x |-> 0, y |-> 0, velX |-> 0, velY |-> 0]]

\* the turn-based game before startGame: the component's state and refs
NoTurn ==
    [running |-> FALSE, gameOver |-> FALSE, currentPlayer |-> "human",
     currentPlayerRef |-> "human", currentTurnTime |-> 0, turnTimeRef |-> 0,
     finalTotalTime |-> 0, turnHistory |-> <<>>, lives |-> 1, over |-> FALSE,
     hitIFrames |-> 0, elapsed |-> 0, games |-> 0,
     last |-> [op |-> "none", player |-> "human", time |-> 0, turnHistory |-> <<>>,
               running |-> FALSE, gameOver |-> FALSE]]

\* nothing has happened outside the engine
AuxIdle ==
    /\ pred = NoPrediction
    /\ meta = FreshMeta
    /\ exported = NoExport
    /\ lastOp = NoOp
    /\ localStorage = [weights_v2 |-> Stored("missing", <<>>), weights |-> PlainText("missing"),
                       full |-> FALSE]
    /\ engines = [e \in EngineIds |-> NoEngine]
    /\ storeOp = NoStoreOp
    /\ replay = NoReplay
    /\ loop = NoLoop
    /\ turn = NoTurn

FreshTracker == [lastCenterDistance |-> 0, timeAwayFromCenter |-> 0, totalCenterTime |-> 0,
                 forceBackToCenterCount |-> 0, lastForceTime |-> 0]

Returned(d) == [action |-> d.action, raised |-> d.raised, mvx |-> d.mvx, mvy |-> d.mvy, speed |-> d.speed,
                hBias |-> d.hBias, hStrength |-> d.hStrength]

\* what forward leaves in fwd: its result, whether some layer had a
\* mismatched shape at call time that the call did not rebuild, and the call
\* inputLayer.forward(features) it starts with: the layer before, and the
\* layer after with what the call returned
ForwardRecord(before, o, now) ==
    [value |-> o.value, policy |-> o.policy, raised |-> o.raised, caught |-> o.caught,
     mismatched |-> \E name \in DOMAIN before :
                       ShapeMismatch(before[name]) /\ ShapeMismatch(o.net[name]),
     called |-> TRUE, now |-> now,
     inputBefore |-> before.inputLayer,
     inputCall |-> LayerForward(before.inputLayer, now)]

----------------------------------------------------------------------------
(* The decision engine: decide on a world, the world moves on *)

Init ==
    /\ world \in DecideWorlds
    /\ clock = StartTime
    /\ net \in DecideNets
    /\ recentPositions \in PositionHistories(world)
    /\ borderAvoidanceMemory = <<>>
    /\ centerTracker = FreshTracker
    /\ lastAction = 0
    /\ lastFeatures = <<>>
    /\ decision = Returned(NoDecision)
    /\ tick = NoDecision
    /\ features = <<>>
    /\ fwd = NoForward
    /\ calls = 0
    /\ AuxIdle

\* one call decide(world, difficulty, training)
Decide ==
    /\ calls < MaxCalls
    /\ clock = StartTime + calls * TickMs
    /\ \E threatAnalysis \in {analyzeRealTimeThreat(world)},
          pickupAnalysis \in {analyzePickupOpportunity(world)},
          f \in {extractFeatures(world)} :
         \E outs \in {ForwardOutcomes(net, clock)}, coin \in BOOLEAN, explore \in ExploreDraws :
          \E policy \in {o.policy : o \in outs} :
            /\ explore # 0 => decideBranch(world, threatAnalysis, pickupAnalysis) = "regular"
            /\ \E d \in {decide(world, threatAnalysis, pickupAnalysis, policy, coin, explore,
                                recentPositions, clock)} :
                  /\ coin => BoundaryCoinUsed(world, d.checked)
                  /\ tick' = d
                  /\ decision' = Returned(d)
                  /\ lastAction' = d.action
                  /\ recentPositions' = d.positions
                  /\ borderAvoidanceMemory' =
                       IF nearBoundary(world) /\ ~d.oscillating
                       THEN updateBorderAvoidanceMemory(borderAvoidanceMemory,
                                                        actionMap[d.bounded + 1], clock)
                       ELSE borderAvoidanceMemory
                  /\ centerTracker' = updateCenterTracking(centerTracker, world, d.checked, clock)
                  /\ net' = (CHOOSE o \in outs : o.policy = policy).net
            /\ features' = f
            /\ lastFeatures' = f
    /\ calls' = calls + 1
    /\ UNCHANGED <<world, clock, fwd>>
    /\ UNCHANGED auxVars

\* the game between two calls: the player moves 40 px along the decided
\* vector and stays inside the field, the hazards move on, time passes
Clamp(v, lo, hi) == Max2(lo, Min2(hi, v))

Advance ==
    /\ calls > 0
    /\ clock = StartTime + (calls - 1) * TickMs
    /\ world' = [world EXCEPT
          !.player.x = Clamp(world.player.x + decision.mvx * 40,
                             world.player.r, world.width - world.player.r),
          !.player.y = Clamp(world.player.y + decision.mvy * 40,
                             world.player.r, world.height - world.player.r),
          !.hazards = [i \in 1..Len(world.hazards) |->
                         [world.hazards[i] EXCEPT
                            !.x = @ + (world.hazards[i].dirX * world.hazards[i].baseSpeed * TickMs)
                                      \div (Milli * Milli),
                            !.y = @ + (world.hazards[i].dirY * world.hazards[i].baseSpeed * TickMs)
                                      \div (Milli * Milli)]]]
    /\ clock' = clock + TickMs
    /\ UNCHANGED <<net, recentPositions, borderAvoidanceMemory, centerTracker, lastAction,
                   lastFeatures, decision, tick, features, fwd, calls>>
    /\ UNCHANGED auxVars

Next == Decide \/ Advance

Spec == Init /\ [][Next]_vars

----------------------------------------------------------------------------
(* Properties of the decision engine, checked under Spec *)

Decided == tick.branch # "none"

Sign(x) == IF x > 0 THEN 1 ELSE IF x < 0 THEN -1 ELSE 0

\* C1: every call of decide returns without raising, with an action in
\* 0..8, the movement vector the fixed table gives that action (0 hold,
\* 1 left, 2 right, 3 up, 4 down, 5 left-up, 6 right-up, 7 left-down,
\* 8 right-down) and a heuristic bias vector of length 9.
C1_DecisionWellFormed ==
    Decided =>
        /\ ~decision.raised
        /\ decision.action \in 0..8
        /\ decision.mvx = (IF decision.action \in {2, 6, 8} THEN 1
                           ELSE IF decision.action \in {1, 5, 7} THEN -1 ELSE 0)
        /\ decision.mvy = (IF decision.action \in {4, 7, 8} THEN 1
                           ELSE IF decision.action \in {3, 5, 6} THEN -1 ELSE 0)
        /\ Len(decision.hBias) = 9

\* decide has returned a diagonal action on a world with hazards and a
\* pickup, run on loaded weights, in a second call
C1_Witness ==
    /\ Decided
    /\ calls = 2
    /\ net # FreshNet
    /\ Len(tick.gs.hazards) >= 2
    /\ Len(tick.gs.pickups) >= 1
    /\ decision.action \in 5..8

\* C2: the action decide returns is never one the final safety pass
\* rejects - its point 80 px ahead is inside the 40 px margin and farther
\* than combined radius + 30 from every hazard - and when the action first
\* chosen is rejected, the action returned is an escape direction or the
\* centre-seeking action.
C2_ReturnedActionNotRejected ==
    Decided =>
        /\ ~CrossesBoundary(tick.gs, decision.action)
        /\ ~HitsHazard(tick.gs, decision.action)
        /\ (CrossesBoundary(tick.gs, tick.chosen) \/ HitsHazard(tick.gs, tick.chosen))
              => \/ \E k \in 1..Len(tick.threatAnalysis.escapeDirections) :
                       decision.action = tick.threatAnalysis.escapeDirections[k]
                 \/ decision.action = getBestCenterAction(tick.gs)

\* C3: with exactly one hazard, nearer to the player than the sum of the
\* radii plus 20, the threat classification has immediateDanger and the
\* action returned is one of the escape directions computed for the tick.
C3_SingleNearHazardEscapes ==
    (/\ Decided
     /\ Len(tick.gs.hazards) = 1
     /\ HypotLess(HazardDX(tick.gs.hazards[1], tick.gs), HazardDY(tick.gs.hazards[1], tick.gs),
                  combinedRadius(tick.gs.hazards[1], tick.gs) + Px(20)))
    => /\ tick.threatAnalysis.immediateDanger
       /\ \E k \in 1..Len(tick.threatAnalysis.escapeDirections) :
             decision.action = tick.threatAnalysis.escapeDirections[k]

\* C4: when a branch turns a desired direction into its action, the action
\* is the movement action whose vector is closest to the direction (none
\* has a larger inner product with it), and it does not move against the
\* direction horizontally or vertically.
C4_DirectionTurnedToClosestAction ==
    (Decided /\ tick.desired # <<>>)
    => /\ tick.chosen \in 1..8
       /\ \A b \in 1..8 :
             actionVectors[b + 1][1] * tick.desired[1] + actionVectors[b + 1][2] * tick.desired[2]
             <= actionVectors[tick.chosen + 1][1] * tick.desired[1]
                + actionVectors[tick.chosen + 1][2] * tick.desired[2]
       /\ Sign(actionMap[tick.chosen + 1][1]) * Sign(tick.desired[1]) >= 0
       /\ Sign(actionMap[tick.chosen + 1][2]) * Sign(tick.desired[2]) >= 0

\* C5: with the player at the field centre, no hazards and no pickups,
\* decide returns action 0.
C5_HoldAtEmptyCentre ==
    (/\ Decided
     /\ tick.gs.player.x = CenterX(tick.gs) /\ tick.gs.player.y = CenterY(tick.gs)
     /\ Len(tick.gs.hazards) = 0 /\ Len(tick.gs.pickups) = 0)
    => decision.action = 0

\* C6: at a health of 20%, when the best pickup is a heart that scores
\* above the emergency threshold of 0.2 and has a safe path, decide takes
\* the pickup branch and the pickup's strategy is emergency_health.
C6_HeartIsEmergencyHealth ==
    (/\ Decided
     /\ tick.gs.lives * 5 = tick.gs.maxLives
     /\ tick.pickupAnalysis.bestPickup # 0
     /\ tick.gs.pickups[tick.pickupAnalysis.bestPickup].type = "heart"
     /\ tick.pickupAnalysis.bestScore > 200
     /\ tick.pickupAnalysis.safePath)
    => /\ tick.branch = "pickup"
       /\ tick.pickupAnalysis.strategyType = "emergency_health"

\* C7: when the action returned is hold and it is safe to stay, the speed
\* multiplier returned is 0.
C7_HoldWhenSafeHasSpeedZero ==
    (Decided /\ decision.action = 0 /\ isSafeToStay(tick.gs)) => decision.speed = 0

----------------------------------------------------------------------------
(* ExperienceBuffer *)

\* ExperienceBuffer.add without the step of position
addWithoutStep(b, experience) ==
    IF Len(b.buffer) < maxSize
    THEN [b EXCEPT !.buffer = Append(b.buffer, experience)]
    ELSE [b EXCEPT !.buffer[b.position + 1] = experience]

\* ExperienceBuffer.add; position counts from 0 as in the code
add(b, experience) ==
    IF Len(b.buffer) < maxSize
    THEN [b EXCEPT !.buffer = Append(b.buffer, experience)]
    ELSE [b EXCEPT !.buffer[b.position + 1] = experience,
                   !.position = (b.position + 1) % maxSize]

\* [...buffer].sort((a, b) => b.priority - a.priority), a stable sort
RECURSIVE InsertByPriority(_, _)
InsertByPriority(sorted, x) ==
    IF sorted = <<>> THEN <<x>>
    ELSE IF x.priority > Head(sorted).priority THEN <<x>> \o sorted
    ELSE <<Head(sorted)>> \o InsertByPriority(Tail(sorted), x)

RECURSIVE SortByPriority(_)
SortByPriority(items) ==
    IF items = <<>> THEN <<>>
    ELSE InsertByPriority(SortByPriority(SubSeq(items, 1, Len(items) - 1)), items[Len(items)])

\* Math.floor(batchSize * 0.8)
highPriorityCount(batchSize) == (batchSize * 8) \div 10

\* ExperienceBuffer.sample(batchSize); draws are the indices (from 1) that
\* Math.floor(Math.random() * buffer.length) gives for the random part
sample(b, batchSize, draws) ==
    IF Len(b.buffer) < batchSize THEN b.buffer
    ELSE SubSeq(SortByPriority(b.buffer), 1, highPriorityCount(batchSize))
         \o [i \in 1..(batchSize - highPriorityCount(batchSize)) |-> b.buffer[draws[i]]]

\* ExperienceBuffer.clear
clear(b) == [b EXCEPT !.buffer = <<>>, !.position = 0]

----------------------------------------------------------------------------
(* Feature extraction on worlds with many hazards and pickups *)

\* worlds with h hazards and p pickups, the hazards in a row across the field
FeatWorld(pos, h, p) ==
    GameState(pos,
              [i \in 1..h |-> Hazard(15 * i, 100, 0, 1000)],
              [i \in 1..p |-> Pickup(50 * i, 200, "heart")],
              <<3, 3>>)

InitFeat ==
    /\ world \in {FeatWorld(pos, h, p) :
                     pos \in PlayerPositions, h \in 0..MaxFeatHazards, p \in 0..MaxFeatPickups}
    /\ clock = StartTime
    /\ net = FreshNet
    /\ recentPositions = <<>>
    /\ borderAvoidanceMemory = <<>>
    /\ centerTracker = FreshTracker
    /\ lastAction = 0
    /\ lastFeatures = <<>>
    /\ decision = Returned(NoDecision)
    /\ tick = NoDecision
    /\ features = <<>>
    /\ fwd = NoForward
    /\ calls = 0
    /\ AuxIdle

\* one call extractFeatures(world, difficulty)
Extract ==
    /\ calls = 0
    /\ features' = extractFeatures(world)
    /\ calls' = 1
    /\ UNCHANGED <<world, clock, net, recentPositions, borderAvoidanceMemory, centerTracker,
                   lastAction, lastFeatures, decision, tick, fwd>>
    /\ UNCHANGED auxVars

\* addExperience: the priority of the experience.  base is
\* |reward| + (done ? 2 : 0) in thousandths; weights are the values of
\* the state vector that the nearby-hazard factor is computed from (the
\* factor is 1 + 2 * the mean of those above 0.1), read at
\* 8 + i * 6 + 5 for i = 0..24
addExperience(state, reward, done) ==
    [base |-> Abs(reward) + (IF done THEN 2 * Milli ELSE 0),
     weights |-> IF Len(state) >= 158
                 THEN [k \in {i \in 1..25 : 8 + ((i - 1) * 6) + 5 < Len(state)} |->
                          state[8 + ((k - 1) * 6) + 5 + 1]]
                 ELSE <<>>]

Rewards == {-1000, 0, 500}

\* addExperience(features, action, reward, nextState, done) on the
\* features just extracted
AddExperience ==
    /\ calls = 1
    /\ replay.added = <<>>
    /\ \E reward \in Rewards, done \in BOOLEAN :
          \E experience \in {[id |-> 1, reward |-> reward, done |-> done,
                               priority |-> addExperience(features, reward, done)]} :
             replay' = [add(replay, experience) EXCEPT !.added = <<experience>>]
    /\ UNCHANGED <<world, clock, net, recentPositions, borderAvoidanceMemory, centerTracker,
                   lastAction, lastFeatures, decision, tick, features, fwd, calls, pred,
                   meta, exported, lastOp, localStorage, engines, storeOp, loop, turn>>

NextFeat == Extract \/ AddExperience

SpecFeat == InitFeat /\ [][NextFeat]_vars

\* C8: extractFeatures returns exactly 200 values, whatever the numbers of
\* hazards and pickups.
C8_FeatureVectorHas200 == calls = 1 => Len(features) = 200

\* extractFeatures has run on a world with more than 20 hazards and more
\* than 5 pickups
C8_Witness ==
    /\ calls = 1
    /\ features # <<>>
    /\ Len(world.hazards) > maxEnemies
    /\ Len(world.pickups) > 5

\* the block the layout 8, 12, 10, 120, 20, 15, 15 puts at index i (from 0)
LayoutBlock(i) ==
    IF i < 8 THEN "basic"
    ELSE IF i < 20 THEN "predictive"
    ELSE IF i < 30 THEN "center"
    ELSE IF i < 150 THEN "enemy"
    ELSE IF i < 170 THEN "pickup"
    ELSE IF i < 185 THEN "threat"
    ELSE "safety"

\* C9: the feature vector is laid out in blocks of 8, 12, 10, 120, 20, 15
\* and 15 values: the global-threat values are at indices 170-184 and the
\* safety and boundary values at 185-199, with or without hazards.
C9_FixedFeatureLayout ==
    calls = 1 => \A i \in 0..199 : i + 1 \in DOMAIN features
                                   /\ features[i + 1].block = LayoutBlock(i)

----------------------------------------------------------------------------
(* The network: weights are loaded, time passes, forward is called *)

NetTickMs == Timing.netTick

\* the documents loaded: one layer of any kind, the others good (the one
\* row of the value head cannot be one of several)
NetDocs == {Doc(layer, kind) : layer \in DOMAIN FreshNet, kind \in DocLayers}
           \ {Doc("valueHead", "someShortRows")}

InitNet ==
    /\ world = NoDecision.gs
    /\ clock = StartTime
    /\ net = FreshNet
    /\ recentPositions = <<>>
    /\ borderAvoidanceMemory = <<>>
    /\ centerTracker = FreshTracker
    /\ lastAction = 0
    /\ lastFeatures = <<>>
    /\ decision = Returned(NoDecision)
    /\ tick = NoDecision
    /\ features = <<>>
    /\ fwd = NoForward
    /\ calls = 0
    /\ AuxIdle

\* importWeights / the constructor's load of a stored document
LoadWeights ==
    /\ calls < MaxLoads
    /\ \E doc \in NetDocs : net' = loadWeights(net, doc, clock)
    /\ calls' = calls + 1
    /\ UNCHANGED <<world, clock, recentPositions, borderAvoidanceMemory, centerTracker,
                   lastAction, lastFeatures, decision, tick, features, fwd>>
    /\ UNCHANGED auxVars

\* one call forward(features) with a feature vector of length 200
Forward ==
    /\ \E o \in ForwardOutcomes(net, clock) :
          /\ net' = o.net
          /\ fwd' = ForwardRecord(net, o, clock)
    /\ UNCHANGED <<world, clock, recentPositions, borderAvoidanceMemory, centerTracker,
                   lastAction, lastFeatures, decision, tick, features, calls>>
    /\ UNCHANGED auxVars

\* time passes
Tick ==
    /\ clock < StartTime + MaxTicks * NetTickMs
    /\ clock' = clock + NetTickMs
    /\ UNCHANGED <<world, net, recentPositions, borderAvoidanceMemory, centerTracker,
                   lastAction, lastFeatures, decision, tick, features, fwd, calls>>
    /\ UNCHANGED auxVars

NextNet == LoadWeights \/ Forward \/ Tick

SpecNet == InitNet /\ [][NextNet]_vars

\* C10: forward never raises, and when a layer's weights mismatched the
\* declared shape at the call and the call did not rebuild the layer, it
\* returns value 0 and the uniform policy.
C10_MismatchGivesUniform ==
    fwd.called =>
        /\ ~fwd.raised
        /\ fwd.mismatched => (fwd.value = 0 /\ fwd.policy = UniformPolicy)

\* C11: a layer whose parameter shape is mismatched is rebuilt at most once
\* per cooldown window of 2000 ms since it was last initialised: a forward
\* call inside the window returns an all-zero vector and leaves the
\* parameters unchanged, and the first forward call after the window
\* rebuilds the layer to its declared shape (and starts a new window).
C11_RebuildOncePerCooldown ==
    (fwd.called /\ ShapeMismatch(fwd.inputBefore)) =>
        IF fwd.now - fwd.inputBefore.lastInitTime <= initCooldown
        THEN fwd.inputCall.out = "zero" /\ fwd.inputCall.layer = fwd.inputBefore
        ELSE /\ ~ShapeMismatch(fwd.inputCall.layer)
             /\ fwd.inputCall.layer.lastInitTime = fwd.now

----------------------------------------------------------------------------
(* The kinematic predictor and the places that predict a hazard themselves *)

\* the kinds of hazard, with the parameters the game's presets give them;
\* a tracker comes with and without a turn rate
PredKinds ==
    {[kind |-> "normal", turnRate |-> Undefined, zigFreq |-> 0, zigAmp |-> 0],
     [kind |-> "tracker", turnRate |-> Pi, zigFreq |-> 0, zigAmp |-> 0],
     [kind |-> "tracker", turnRate |-> Undefined, zigFreq |-> 0, zigAmp |-> 0],
     [kind |-> "zigzag", turnRate |-> Undefined, zigFreq |-> 4, zigAmp |-> 50]}

PredHazards ==
    {[HazardPool[i] EXCEPT !.kind = k.kind, !.turnRate = k.turnRate,
                           !.zigFreq = k.zigFreq, !.zigAmp = k.zigAmp] :
        i \in 1..Len(HazardPool), k \in PredKinds}

\* everything the engine remembers is as constructed
MemoryIdle ==
    /\ clock = StartTime
    /\ net = FreshNet
    /\ recentPositions = <<>>
    /\ borderAvoidanceMemory = <<>>
    /\ centerTracker = FreshTracker
    /\ lastAction = 0
    /\ lastFeatures = <<>>
    /\ decision = Returned(NoDecision)
    /\ tick = NoDecision
    /\ features = <<>>
    /\ fwd = NoForward

InitPred ==
    /\ world \in {GameState(pos, <<h>>, <<>>, <<3, 3>>) :
                     pos \in PlayerPositions, h \in PredHazards}
    /\ MemoryIdle
    /\ calls = 0
    /\ AuxIdle

\* the hazard of the world is predicted: by the predictor over one second
\* and over step half seconds, by extractAllEnemyInformation, and by
\* evaluateDirectionSafety at simulation step step of movement action a
Predict ==
    /\ calls = 0
    /\ \E step \in 1..MaxPredSteps, a \in {2, 3} :
          \E h \in {world.hazards[1]} :
             pred' = [called |-> TRUE, hazard |-> h, step |-> step,
                      atStep |-> predictEnemyPositionPhysics(h, world, step * 500),
                      atSecond |-> predictEnemyPositionPhysics(h, world, 1000),
                      enemyInfo |-> EnemyNextPosition(h),
                      dirSafety |->
                          DirSafetyHazardAt(h,
                              Px(world.player.x + actionMap[a + 1][1] * 30 * step),
                              Px(world.player.y + actionMap[a + 1][2] * 30 * step), step),
                      target |-> TrackerTarget(h, world)]
    /\ calls' = 1
    /\ UNCHANGED <<world, clock, net, recentPositions, borderAvoidanceMemory, centerTracker,
                   lastAction, lastFeatures, decision, tick, features, fwd>>
    /\ UNCHANGED <<meta, exported, lastOp, localStorage, engines, storeOp, replay, loop, turn>>

NextPred == Predict

SpecPred == InitPred /\ [][NextPred]_vars

\* C12: every predicted hazard position the engine uses equals what the
\* kinematic predictor returns for the same hazard, world and time step:
\* the position in the hazard's feature slot is the predictor's after one
\* second, and the position the direction safety scores against is the
\* predictor's after the step's half seconds.
C12_CallSitesUsePredictor ==
    pred.called => /\ pred.enemyInfo = pred.atSecond
                   /\ pred.dirSafety = pred.atStep

\* C13: for a tracker, the direction the predictor steers toward is the
\* unit vector from the hazard to the player's current position, wherever
\* the player is relative to the hazard: the offset to the player is
\* divided by its own length.
C13_TrackerSteersAlongUnitVector ==
    (/\ pred.called
     /\ pred.hazard.kind = "tracker"
     /\ (pred.hazard.x # world.player.x \/ pred.hazard.y # world.player.y))
    => pred.target.lenSq = DistSq(Px(world.player.x) - Px(pred.hazard.x),
                                  Px(world.player.y) - Px(pred.hazard.y))

----------------------------------------------------------------------------
(* Weight documents: export, import, reset and the start-up sequence *)

\* loadFromPresetFile: fetch fails, answers with a status that is not OK,
\* fails to deliver the body, or delivers a text
loadFromPresetFile(e, fetch, now) ==
    IF fetch.kind # "ok"
    THEN [net |-> e.net, meta |-> e.meta, returned |-> FALSE, imported |-> FALSE]
    ELSE The({ [net |-> r.net, meta |-> r.meta, returned |-> TRUE, imported |-> r.returned] :
                 r \in {importWeights(e, fetch.text, now)} })

\* loadFromStorage: saved is what localStorage holds under dodger_ai_weights
loadFromStorage(e, saved, now) ==
    IF saved.kind = "missing"
    THEN [net |-> e.net, meta |-> e.meta, returned |-> FALSE, imported |-> FALSE]
    ELSE The({ [net |-> r.net, meta |-> r.meta, returned |-> TRUE, imported |-> r.returned] :
                 r \in {importWeights(e, saved, now)} })

\* initializeAI of the game components
initializeAI(e, fetch, saved, now) ==
    The({ IF p.returned
          THEN [net |-> p.net, meta |-> p.meta,
                op |-> [NoOp EXCEPT !.name = "initializeAI", !.fetch = fetch.kind,
                                    !.text = fetch.text, !.netBefore = e.net,
                                    !.metaBefore = e.meta, !.presetReturned = TRUE,
                                    !.presetImported = p.imported,
                                    !.hasCustomWeights = TRUE]]
          ELSE The({ [net |-> st.net, meta |-> st.meta,
                      op |-> [NoOp EXCEPT !.name = "initializeAI", !.fetch = fetch.kind,
                                          !.text = fetch.text, !.netBefore = e.net,
                                          !.metaBefore = e.meta, !.storageTried = TRUE,
                                          !.storageReturned = st.returned,
                                          !.storageImported = st.imported,
                                          !.hasCustomWeights = st.returned]] :
                       st \in {loadFromStorage([net |-> p.net, meta |-> p.meta], saved, now)} }) :
            p \in {loadFromPresetFile(e, fetch, now)} })

\* statistics of an engine that has played three episodes (60, 200, 100)
PlayedMeta ==
    [episodeCount |-> 3, totalReward |-> 360, averagePerformance |-> 120,
     bestPerformance |-> 200, explorationRate |-> 100]

\* a versioned document of a trained network, complete
TrainedText ==
    [kind |-> "object",
     layers |-> [name \in DOMAIN FreshNet |-> [kind |-> "good", params |-> 1]],
     metadata |-> [present |-> TRUE, version |-> TRUE, episodes |-> 7,
                   averagePerformance |-> 50, bestPerformance |-> 90,
                   explorationRate |-> 50]]

\* the same document without two of its layers
PartialText ==
    [TrainedText EXCEPT !.layers.hiddenLayer2 = [kind |-> "absent", params |-> 0],
                        !.layers.valueHead = [kind |-> "absent", params |-> 0],
                        !.layers.inputLayer.params = 2]

\* the same document with metadata that carries no version
UnversionedText == [TrainedText EXCEPT !.metadata.version = FALSE]

ImportTexts ==
    {PlainText("garbage"), PlainText("null"), PlainText("object"),
     TrainedText, PartialText, UnversionedText}

Fetches ==
    {[kind |-> k, text |-> PlainText("missing")] : k \in {"error", "notOk", "bodyError"}}
    \cup {[kind |-> "ok", text |-> t] : t \in {PlainText("garbage"), TrainedText, UnversionedText}}

InitDoc ==
    /\ world = NoDecision.gs
    /\ MemoryIdle
    /\ calls = 0
    /\ pred = NoPrediction
    /\ meta \in {FreshMeta, PlayedMeta}
    /\ exported = NoExport
    /\ lastOp = NoOp
    /\ localStorage \in {[weights_v2 |-> Stored("missing", <<>>), weights |-> t, full |-> FALSE] :
                            t \in {PlainText("missing"), PlainText("garbage"), TrainedText}}
    /\ engines = [e \in EngineIds |-> NoEngine]
    /\ storeOp = NoStoreOp
    /\ replay = NoReplay
    /\ loop = NoLoop
    /\ turn = NoTurn

DocFrame ==
    UNCHANGED <<world, clock, recentPositions, borderAvoidanceMemory, centerTracker,
                lastAction, lastFeatures, decision, tick, features, fwd, pred,
                localStorage, engines, storeOp, replay, loop, turn>>

\* exportWeights(); the state exported is kept beside the text
ExportWeights ==
    /\ ~exported.made
    /\ exported' = [made |-> TRUE, text |-> exportWeights(net, meta), net |-> net, meta |-> meta]
    /\ lastOp' = [NoOp EXCEPT !.name = "export"]
    /\ UNCHANGED <<net, meta, calls>>
    /\ DocFrame

\* resetWeights()
ResetWeights ==
    /\ calls < MaxDocOps
    /\ \E r \in {resetWeights([net |-> net, meta |-> meta], clock)} :
          /\ net' = r.net
          /\ meta' = r.meta
    /\ lastOp' = [NoOp EXCEPT !.name = "reset", !.netBefore = net, !.metaBefore = meta]
    /\ calls' = calls + 1
    /\ UNCHANGED exported
    /\ DocFrame

\* importWeights(text), of some text or of the text exported before
ImportWeights ==
    /\ calls < MaxDocOps
    /\ \E text \in ImportTexts \cup (IF exported.made THEN {exported.text} ELSE {}) :
          \E r \in {importWeights([net |-> net, meta |-> meta], text, clock)} :
             /\ net' = r.net
             /\ meta' = r.meta
             /\ lastOp' = [NoOp EXCEPT !.name = "import", !.text = text,
                                       !.returned = r.returned,
                                       !.netBefore = net, !.metaBefore = meta]
    /\ calls' = calls + 1
    /\ UNCHANGED exported
    /\ DocFrame

\* the game component starts: initializeAI()
InitializeAI ==
    /\ calls < MaxDocOps
    /\ \E fetch \in Fetches :
          \E r \in {initializeAI([net |-> net, meta |-> meta], fetch, localStorage.weights, clock)} :
             /\ net' = r.net
             /\ meta' = r.meta
             /\ lastOp' = r.op
    /\ calls' = calls + 1
    /\ UNCHANGED exported
    /\ DocFrame

NextDoc == ExportWeights \/ ResetWeights \/ ImportWeights \/ InitializeAI

SpecDoc == InitDoc /\ [][NextDoc]_vars

\* the weights and biases a layer holds
Parameters(l) == [rows |-> l.rows, cols |-> l.cols, biases |-> l.biases, params |-> l.params]

\* C17: export and then import reproduces the exported state exactly: the
\* weights and biases of all six layers, and of the metadata episodes,
\* averagePerformance, bestPerformance and explorationRate.
C17_ExportImportRoundTrip ==
    (lastOp.name = "import" /\ exported.made /\ lastOp.text = exported.text)
    => /\ \A name \in DOMAIN net : Parameters(net[name]) = Parameters(exported.net[name])
       /\ meta.episodeCount = exported.meta.episodeCount
       /\ meta.averagePerformance = exported.meta.averagePerformance
       /\ meta.bestPerformance = exported.meta.bestPerformance
       /\ meta.explorationRate = exported.meta.explorationRate

\* C18: importing a versioned document in which some layers are absent
\* raises nothing, replaces only the layers that are present, and leaves
\* the weights and biases of every absent layer exactly as they were.
C18_AbsentLayersUntouched ==
    (/\ lastOp.name = "import"
     /\ lastOp.text.kind = "object"
     /\ lastOp.text.metadata.present /\ lastOp.text.metadata.version)
    => /\ ~lastOp.raised
       /\ \A name \in DOMAIN net :
             lastOp.text.layers[name].kind = "absent" => net[name] = lastOp.netBefore[name]

\* a versioned document with absent layers has been imported into a
\* network that held other numbers, and its present layers were taken over
C18_Witness ==
    /\ lastOp.name = "import"
    /\ lastOp.returned
    /\ \E name \in DOMAIN net : lastOp.text.layers[name].kind = "absent"
    /\ \A name \in DOMAIN net :
          lastOp.text.layers[name].kind = "good" =>
             /\ net[name].params = lastOp.text.layers[name].params
             /\ net[name].params # lastOp.netBefore[name].params

\* C19: weight initialisation tries the preset document, then the
\* persisted snapshot, then stays on fresh weights: whenever the preset
\* is not loaded (fetch error, non-OK response, or the import rejects the
\* document) the persisted snapshot is tried next, and no failure raises.
C19_PresetThenStorageThenFresh ==
    lastOp.name = "initializeAI"
    => /\ ~lastOp.raised
       /\ ~lastOp.presetImported => lastOp.storageTried
       /\ lastOp.presetImported => ~lastOp.storageTried

----------------------------------------------------------------------------
(* WeightManager: the snapshot store of an engine and what it persists.
   Scores and performances are in thousandths. *)

maxWeights == 10

\* a > b of JavaScript on numbers that may be missing
Greater(a, b) == a # Undefined /\ b # Undefined /\ a > b

\* Array.prototype.sort is stable: w goes behind the entries the comparator
\* does not put after it
RECURSIVE InsertAscending(_, _)
InsertAscending(sorted, w) ==
    IF sorted = <<>> THEN <<w>>
    ELSE IF Greater(Head(sorted).performance, w.performance) THEN <<w>> \o sorted
    ELSE <<Head(sorted)>> \o InsertAscending(Tail(sorted), w)

RECURSIVE InsertDescending(_, _)
InsertDescending(sorted, w) ==
    IF sorted = <<>> THEN <<w>>
    ELSE IF Greater(w.performance, Head(sorted).performance) THEN <<w>> \o sorted
    ELSE <<Head(sorted)>> \o InsertDescending(Tail(sorted), w)

\* sort with the comparator a.performance - b.performance
RECURSIVE SortAscending(_)
SortAscending(items) ==
    IF items = <<>> THEN <<>>
    ELSE InsertAscending(SortAscending(SubSeq(items, 1, Len(items) - 1)), items[Len(items)])

\* weights.sort((a, b) => b.performance - a.performance)
RECURSIVE SortDescending(_)
SortDescending(items) ==
    IF items = <<>> THEN <<>>
    ELSE InsertDescending(SortDescending(SubSeq(items, 1, Len(items) - 1)), items[Len(items)])

\* saveWeights without the cap
saveWeightsUncapped(items, id, performance, networkData) ==
    [items |-> Append(items, [id |-> id, performance |-> performance, data |-> networkData]),
     overflowed |-> FALSE]

\* WeightManager.saveWeights up to the write to localStorage: the list
\* afterwards.  The deep copy through JSON gives back the finite numbers
\* it was given.
saveWeights(items, id, performance, networkData) ==
    The({ IF Len(pushed) > maxWeights
          THEN [items |-> SubSeq(SortDescending(pushed), 1, maxWeights), overflowed |-> TRUE]
          ELSE [items |-> pushed, overflowed |-> FALSE] :
            pushed \in {Append(items, [id |-> id, performance |-> performance,
                                        data |-> networkData])} })

\* saveToLocalStorage: setItem throws when the quota is used up, and the
\* catch clause drops the error
saveToLocalStorage(storage, items) ==
    IF storage.full THEN storage ELSE [storage EXCEPT !.weights_v2 = Stored("list", items)]

\* loadFromLocalStorage: the value of this.weights afterwards
loadFromLocalStorage(saved) ==
    IF saved.kind \in {"missing", "garbage"} THEN Stored("list", <<>>) ELSE saved

\* the reduce of getBestWeights
RECURSIVE BestEntry(_)
BestEntry(items) ==
    IF Len(items) = 1 THEN items[1]
    ELSE The({ IF Greater(items[Len(items)].performance, best.performance)
               THEN items[Len(items)] ELSE best :
                 best \in {BestEntry(SubSeq(items, 1, Len(items) - 1))} })

\* getBestWeights: null (a text of kind "missing") for the empty list and
\* for a best entry without data; a TypeError when this.weights is null or
\* has no reduce
getBestWeights(w) ==
    IF w.kind # "list" THEN [raised |-> TRUE, data |-> PlainText("missing")]
    ELSE IF w.items = <<>> THEN [raised |-> FALSE, data |-> PlainText("missing")]
    ELSE [raised |-> FALSE, data |-> BestEntry(w.items).data]

\* the networkData of saveCurrentWeights
CurrentWeights(n, m) ==
    [kind |-> "object",
     layers |-> [name \in DOMAIN n |-> LayerData(n[name])],
     metadata |-> [present |-> TRUE, version |-> FALSE, episodes |-> m.episodeCount,
                   averagePerformance |-> m.averagePerformance,
                   bestPerformance |-> Undefined,
                   explorationRate |-> m.explorationRate]]

\* WeightManager.loadWeights(id): the data of the snapshot, or null (a
\* text of kind "missing")
loadWeightsById(items, id) ==
    IF \E i \in DOMAIN items : items[i].id = id
    THEN items[CHOOSE i \in DOMAIN items : items[i].id = id /\ \A j \in 1..(i - 1) : items[j].id # id].data
    ELSE PlainText("missing")

\* saveCurrentWeights of instance e; the id is unique
saveCurrentWeights(eng, storage, performance, e) ==
    The({ [engine |-> [eng EXCEPT !.weights = Stored("list", r.items),
                                  !.seen = Append(eng.seen, r.entry),
                                  !.originals = Append(eng.originals, r.entry),
                                  !.persisted = TRUE],
           storage |-> saveToLocalStorage(storage, r.items),
           overflowed |-> r.overflowed, saved |-> <<r.entry>>,
           heldBefore |-> <<eng.weights.items>>,
           loadedAfter |-> <<loadWeightsById(r.items, r.entry.id)>>] :
            r \in { [items |-> sw.items, overflowed |-> sw.overflowed,
                     entry |-> [id |-> (e * 100) + Len(eng.seen) + 1,
                                performance |-> performance,
                                data |-> CurrentWeights(eng.net, eng.meta)]] :
                      sw \in {saveWeights(eng.weights.items, (e * 100) + Len(eng.seen) + 1,
                                          performance, CurrentWeights(eng.net, eng.meta))} } })

\* the numbers of a layer after applyGradients has added to its biases
Trained(params) == params + 1000

\* the snapshots after applyGradients, which adds to the bias arrays of
\* the two heads in place: a snapshot whose arrays these are changes too
GradientsApplied(items, id) ==
    [i \in DOMAIN items |->
        IF items[i].id = id
        THEN [items[i] EXCEPT !.data.layers.valueHead.params = Trained(@),
                              !.data.layers.policyHead.params = Trained(@)]
        ELSE items[i]]

\* train(): nothing below 100 experiences; else the gradient steps on the
\* sampled experiences and the decay of explorationRate (thousandths,
\* rounded down)
train(eng) ==
    IF eng.experiences < 100 THEN eng
    ELSE [eng EXCEPT !.net.valueHead.params = Trained(@),
                     !.net.policyHead.params = Trained(@),
                     !.weights.items = GradientsApplied(@, eng.shares),
                     !.seen = GradientsApplied(@, eng.shares),
                     !.meta.explorationRate = Max2(10, (@ * 995) \div 1000)]

\* endEpisode without the training of every tenth episode
endEpisodeUntrained(eng, storage, finalScore, e) ==
    LET count == eng.meta.episodeCount + 1
        total == eng.meta.totalReward + finalScore
        isBest == finalScore > eng.meta.bestPerformance
        counted == [eng EXCEPT !.meta.episodeCount = count,
                               !.meta.totalReward = total,
                               !.meta.averagePerformance = total \div count,
                               !.meta.bestPerformance =
                                   IF isBest THEN finalScore ELSE eng.meta.bestPerformance,
                               !.since.sum = @ + finalScore,
                               !.since.count = @ + 1,
                               !.highest = IF Greater(@, finalScore) THEN @ ELSE finalScore]
        unsaved == [engine |-> counted, storage |-> storage, overflowed |-> FALSE,
                    saved |-> <<>>, heldBefore |-> <<>>, loadedAfter |-> <<>>]
    IN The({ The({ [engine |-> second.engine, storage |-> second.storage,
                    overflowed |-> first.overflowed \/ second.overflowed,
                    saved |-> first.saved \o second.saved,
                          heldBefore |-> first.heldBefore \o second.heldBefore,
                    loadedAfter |-> first.loadedAfter \o second.loadedAfter,
                    trained |-> FALSE] :
                     second \in {IF count % 50 = 0
                                 THEN saveCurrentWeights(first.engine, first.storage,
                                                         total \div count, e)
                                 ELSE [unsaved EXCEPT !.engine = first.engine,
                                                      !.storage = first.storage]} }) :
               first \in {IF isBest THEN saveCurrentWeights(counted, storage, finalScore, e)
                                    ELSE unsaved} })

\* endEpisode(finalScore) of instance e; scores and averagePerformance in
\* thousandths, the average rounded down
endEpisode(eng, storage, finalScore, e) ==
    LET count == eng.meta.episodeCount + 1
        total == eng.meta.totalReward + finalScore
        isBest == finalScore > eng.meta.bestPerformance
        counted == [eng EXCEPT !.meta.episodeCount = count,
                               !.meta.totalReward = total,
                               !.meta.averagePerformance = total \div count,
                               !.meta.bestPerformance =
                                   IF isBest THEN finalScore ELSE eng.meta.bestPerformance,
                               !.since.sum = @ + finalScore,
                               !.since.count = @ + 1,
                               !.highest = IF Greater(@, finalScore) THEN @ ELSE finalScore]
        unsaved == [engine |-> counted, storage |-> storage, overflowed |-> FALSE,
                    saved |-> <<>>, heldBefore |-> <<>>, loadedAfter |-> <<>>]
    IN The({ The({ The({ [engine |-> second.engine, storage |-> second.storage,
                          overflowed |-> first.overflowed \/ second.overflowed,
                          saved |-> first.saved \o second.saved,
                          heldBefore |-> first.heldBefore \o second.heldBefore,
                          loadedAfter |-> first.loadedAfter \o second.loadedAfter,
                          trained |-> count % 10 = 0] :
                           second \in {IF count % 50 = 0
                                       THEN saveCurrentWeights(trained, first.storage,
                                                               total \div count, e)
                                       ELSE [unsaved EXCEPT !.engine = trained,
                                                            !.storage = first.storage]} }) :
                     trained \in {IF count % 10 = 0 THEN train(first.engine)
                                                   ELSE first.engine} }) :
               first \in {IF isBest THEN saveCurrentWeights(counted, storage, finalScore, e)
                                    ELSE unsaved} })

\* loadSpecificWeights(id)
loadSpecificWeights(eng, id, now) ==
    The({ IF data.kind = "object"
          THEN [eng EXCEPT !.net = loadWeights(eng.net, data.layers, now),
                           !.meta = loadMetadata(eng.meta, data.metadata),
                           !.shares = id]
          ELSE eng :
            data \in {loadWeightsById(eng.weights.items, id)} })

\* resetWeights() of an instance: new layers with arrays of their own, the
\* buffer cleared
resetInstance(eng, now) ==
    The({ [eng EXCEPT !.net = r.net, !.meta = r.meta, !.experiences = 0, !.shares = 0,
                      !.since = [reset |-> TRUE, sum |-> 0, count |-> 0],
                      !.highest = Undefined] :
            r \in {resetWeights([net |-> eng.net, meta |-> eng.meta], now)} })

\* the constructor of AdvancedDodgerAI, from loadFromLocalStorage on
construct(saved, now) ==
    The({ IF best.raised
          THEN [raised |-> TRUE, engine |-> NoEngine]
          ELSE [raised |-> FALSE,
                engine |-> [NoEngine EXCEPT
                            !.alive = TRUE,
                            !.net = IF best.data.kind = "object"
                                    THEN loadWeights([name \in DOMAIN FreshNet |-> NeuralLayer(now)],
                                                     best.data.layers, now)
                                    ELSE [name \in DOMAIN FreshNet |-> NeuralLayer(now)],
                            !.meta = IF best.data.kind = "object"
                                     THEN loadMetadata(FreshMeta, best.data.metadata)
                                     ELSE FreshMeta,
                            !.weights = loadFromLocalStorage(saved),
                            !.seen = loadFromLocalStorage(saved).items,
                            !.originals = loadFromLocalStorage(saved).items,
                            !.shares = IF best.data.kind = "object"
                                       THEN BestEntry(loadFromLocalStorage(saved).items).id
                                       ELSE 0]] :
            best \in {getBestWeights(loadFromLocalStorage(saved))} })

\* a snapshot an earlier session saved
Snapshot(id, performance, episodes) ==
    [id |-> id, performance |-> performance,
     data |-> [kind |-> "object",
               layers |-> [name \in DOMAIN FreshNet |-> [kind |-> "good", params |-> id]],
               metadata |-> [present |-> TRUE, version |-> FALSE, episodes |-> episodes,
                             averagePerformance |-> performance, bestPerformance |-> Undefined,
                             explorationRate |-> 50]]]

\* a full list in the order of saving; its best snapshot was saved after
\* 49 episodes, the best of its first eight after 8
TenSnapshots ==
    [k \in 1..10 |->
        Snapshot(k, <<30000, 10000, 50000, 20000, 90000, 40000, 70000, 60000, 100000, 80000>>[k],
                 IF k = 9 THEN 49 ELSE IF k = 5 THEN 8 ELSE k)]

\* an array of values that are no snapshots, as in [1, 2]
Junk == [id |-> Undefined, performance |-> Undefined, data |-> PlainText("missing")]

StoredLists ==
    {Stored(k, <<>>) : k \in {"missing", "garbage", "null", "number", "object", "list"}}
    \cup {Stored("list", <<Junk, Junk>>), Stored("list", TenSnapshots),
          Stored("list", SubSeq(TenSnapshots, 1, 9)),
          Stored("list", SubSeq(TenSnapshots, 1, 8))}

Scores == {0, 50000, 250000}

InitStore ==
    /\ world = NoDecision.gs
    /\ MemoryIdle
    /\ calls = 0
    /\ pred = NoPrediction
    /\ meta = FreshMeta
    /\ exported = NoExport
    /\ lastOp = NoOp
    /\ localStorage \in {[weights_v2 |-> l, weights |-> PlainText("missing"), full |-> f] :
                            l \in StoredLists, f \in BOOLEAN}
    /\ engines = [e \in EngineIds |-> NoEngine]
    /\ storeOp = NoStoreOp
    /\ replay = NoReplay
    /\ loop = NoLoop
    /\ turn = NoTurn

StoreFrame ==
    UNCHANGED <<world, clock, net, recentPositions, borderAvoidanceMemory, centerTracker,
                lastAction, lastFeatures, decision, tick, features, fwd, pred,
                meta, exported, lastOp, replay, loop, turn>>

\* new AdvancedDodgerAI() for instance e
Construct(e) ==
    /\ calls < MaxStoreOps
    /\ ~engines[e].alive
    /\ \E r \in {construct(localStorage.weights_v2, clock)} :
          /\ engines' = [engines EXCEPT ![e] = r.engine]
          /\ storeOp' = [NoStoreOp EXCEPT !.name = "construct", !.engine = e,
                                          !.raised = r.raised,
                                          !.storedBefore = localStorage.weights_v2]
    /\ calls' = calls + 1
    /\ UNCHANGED localStorage
    /\ StoreFrame

\* instance e ends an episode
EndEpisode(e) ==
    /\ calls < MaxStoreOps
    /\ engines[e].alive
    /\ \E finalScore \in Scores :
          \E r \in {endEpisode(engines[e], localStorage, finalScore, e)} :
             /\ engines' = [engines EXCEPT ![e] = r.engine]
             /\ localStorage' = r.storage
             /\ storeOp' = [NoStoreOp EXCEPT !.name = "endEpisode", !.engine = e,
                                             !.storedBefore = localStorage.weights_v2,
                                             !.overflowed = r.overflowed,
                                             !.saved = r.saved,
                                             !.heldBefore = r.heldBefore,
                                             !.loadedAfter = r.loadedAfter,
                                             !.trained = r.trained,
                                             !.score = finalScore,
                                             !.highestBefore = engines[e].highest,
                                             !.count = r.engine.meta.episodeCount]
    /\ calls' = calls + 1
    /\ StoreFrame

\* a game of 100 steps is played with instance e in training: 100 calls
\* of addExperience
Play(e) ==
    /\ calls < MaxStoreOps
    /\ engines[e].alive
    /\ engines[e].experiences = 0
    /\ engines' = [engines EXCEPT ![e].experiences = 100]
    /\ storeOp' = [NoStoreOp EXCEPT !.name = "play", !.engine = e,
                                    !.storedBefore = localStorage.weights_v2]
    /\ calls' = calls + 1
    /\ UNCHANGED localStorage
    /\ StoreFrame

\* loadSpecificWeights(id) on instance e, with the id of the first or of
\* the last snapshot of its list
LoadSpecificWeights(e) ==
    /\ calls < MaxStoreOps
    /\ engines[e].alive
    /\ engines[e].weights.items # <<>>
    /\ \E id \in {engines[e].weights.items[1].id,
                  engines[e].weights.items[Len(engines[e].weights.items)].id} \ {Undefined} :
          engines' = [engines EXCEPT ![e] = loadSpecificWeights(engines[e], id, clock)]
    /\ storeOp' = [NoStoreOp EXCEPT !.name = "load", !.engine = e,
                                    !.storedBefore = localStorage.weights_v2]
    /\ calls' = calls + 1
    /\ UNCHANGED localStorage
    /\ StoreFrame

\* resetWeights() on instance e
Reset(e) ==
    /\ calls < MaxStoreOps
    /\ engines[e].alive
    /\ engines' = [engines EXCEPT ![e] = resetInstance(engines[e], clock)]
    /\ storeOp' = [NoStoreOp EXCEPT !.name = "reset", !.engine = e,
                                    !.storedBefore = localStorage.weights_v2]
    /\ calls' = calls + 1
    /\ UNCHANGED localStorage
    /\ StoreFrame

NextStore ==
    \E e \in EngineIds :
        Construct(e) \/ EndEpisode(e) \/ Play(e) \/ LoadSpecificWeights(e) \/ Reset(e)

SpecStore == InitStore /\ [][NextStore]_vars

Entries(items) == {items[i] : i \in DOMAIN items}

C15_KeepsTenHighest ==
    \A e \in EngineIds :
        (engines[e].alive /\ Junk \notin Entries(engines[e].seen)) =>
            /\ Entries(engines[e].weights.items) \subseteq Entries(engines[e].seen)
            /\ Cardinality(Entries(engines[e].weights.items)) =
                   (IF Len(engines[e].seen) < maxWeights THEN Len(engines[e].seen)
                    ELSE maxWeights)
            /\ \A d \in Entries(engines[e].seen) \ Entries(engines[e].weights.items) :
                  \A k \in Entries(engines[e].weights.items) : d.performance <= k.performance

\* a save past 10 entries has kept the new snapshot and dropped an older
\* one of lower performance
C15_Witness ==
    /\ storeOp.overflowed
    /\ \E w \in Entries(storeOp.saved) :
          /\ w \in Entries(engines[storeOp.engine].weights.items)
          /\ \E d \in Entries(storeOp.storedBefore.items) :
                /\ d \notin Entries(engines[storeOp.engine].weights.items)
                /\ d.performance < w.performance

\* C16: constructing an engine when the persisted list is missing, is not
\* parsable or parses to something other than a list of snapshots raises
\* nothing and leaves the store empty and the weights fresh.
C16_BadStorageGivesEmptyStore ==
    (/\ storeOp.name = "construct"
     /\ \/ storeOp.storedBefore.kind # "list"
        \/ Junk \in Entries(storeOp.storedBefore.items))
    => /\ ~storeOp.raised
       /\ engines[storeOp.engine].alive
       /\ engines[storeOp.engine].weights = Stored("list", <<>>)
       /\ engines[storeOp.engine].net = [name \in DOMAIN FreshNet |-> NeuralLayer(clock)]

\* C20: two instances are isolated: what the store of an instance has
\* persisted, and would reload, is the list that instance holds, whatever
\* the other instance does.
C20_InstancesIsolated ==
    \A e \in EngineIds :
        (engines[e].alive /\ engines[e].persisted /\ ~localStorage.full)
        => localStorage.weights_v2 = engines[e].weights

----------------------------------------------------------------------------
(* The experience buffer under adds, samples and clears *)

Priorities == {1000, 3000}

\* sequences of n indices into a buffer of the given size
RECURSIVE Draws(_, _)
Draws(n, size) ==
    IF n = 0 THEN {<<>>}
    ELSE {Append(d, i) : d \in Draws(n - 1, size), i \in 1..size}

BufferFrame ==
    UNCHANGED <<world, clock, net, recentPositions, borderAvoidanceMemory, centerTracker,
                lastAction, lastFeatures, decision, tick, features, fwd, calls, pred,
                meta, exported, lastOp, localStorage, engines, storeOp, loop, turn>>

InitBuffer ==
    /\ world = NoDecision.gs
    /\ MemoryIdle
    /\ calls = 0
    /\ AuxIdle

\* experienceBuffer.add of an experience with some priority
Add ==
    /\ Len(replay.added) < MaxAdds
    /\ \E priority \in Priorities :
          \E experience \in {[id |-> Len(replay.added) + 1, priority |-> priority]} :
             replay' = [add(replay, experience) EXCEPT !.added = Append(replay.added, experience)]
    /\ BufferFrame

\* experienceBuffer.sample(batchSize), observed once
Sample ==
    /\ ~replay.sampled.called
    /\ replay.buffer # <<>>
    /\ \E batchSize \in 1..maxSize :
          \E draws \in Draws(batchSize - highPriorityCount(batchSize), Len(replay.buffer)) :
             replay' = [replay EXCEPT !.sampled = [called |-> TRUE, batchSize |-> batchSize,
                                                  items |-> sample(replay, batchSize, draws),
                                                  buffer |-> replay.buffer,
                                                  position |-> replay.position]]
    /\ BufferFrame

\* experienceBuffer.clear()
Clear ==
    /\ replay.added # <<>>
    /\ replay' = [clear(replay) EXCEPT !.added = <<>>]
    /\ BufferFrame

NextBuffer == Add \/ Sample \/ Clear

SpecBuffer == InitBuffer /\ [][NextBuffer]_vars

\* the last n of a sequence
LastOf(s, n) == IF Len(s) <= n THEN s ELSE SubSeq(s, Len(s) - n + 1, Len(s))

\* the buffer from its oldest to its newest experience
InInsertionOrder(b) ==
    SubSeq(b.buffer, b.position + 1, Len(b.buffer)) \o SubSeq(b.buffer, 1, b.position)

\* C21: the buffer never holds more than its capacity, and it holds
\* exactly the most recent capacity-many experiences added: an add at
\* capacity overwrites the oldest one.
C21_RingKeepsMostRecent ==
    /\ Len(replay.buffer) = (IF Len(replay.added) < maxSize THEN Len(replay.added) ELSE maxSize)
    /\ Entries(replay.buffer) = Entries(LastOf(replay.added, maxSize))
    /\ InInsertionOrder(replay) = LastOf(replay.added, maxSize)

\* adds have gone round the ring at least once more than its capacity
C21_Witness ==
    /\ Len(replay.added) >= maxSize + 2
    /\ Len(replay.buffer) = maxSize
    /\ replay.position = 2

\* C22: when at least batchSize experiences are stored, the first
\* floor(0.8 * batchSize) items of the sample are the stored experiences of
\* highest priority, those inserted earlier first among equal priorities,
\* also after the buffer has wrapped around.
C22_SampleTiesByInsertion ==
    (replay.sampled.called /\ replay.sampled.batchSize <= Len(replay.sampled.buffer))
    => SubSeq(replay.sampled.items, 1, highPriorityCount(replay.sampled.batchSize))
         = SubSeq(SortByPriority(InInsertionOrder(replay.sampled)), 1,
                  highPriorityCount(replay.sampled.batchSize))

\* the state positions (from 0) at which extractAllEnemyInformation puts
\* the distance weight of hazard slot s, behind the 8 + 12 + 10 values of
\* the blocks before it
EnemyWeightIndex(s) == 8 + 12 + 10 + ((s - 1) * 6) + 5

\* C23: the priority stored with an experience is |reward| plus 2 if
\* terminal, times a factor computed from the per-hazard distance weights
\* of the state vector: the values read are exactly those at the positions
\* where the feature extractor writes the weight of each hazard slot.
C23_PriorityFromHazardWeights ==
    replay.added # <<>> =>
        /\ replay.added[1].priority.base =
               Abs(replay.added[1].reward) + (IF replay.added[1].done THEN 2 * Milli ELSE 0)
        /\ {replay.added[1].priority.weights[k] : k \in DOMAIN replay.added[1].priority.weights}
               = {features[EnemyWeightIndex(s) + 1] : s \in 1..maxEnemies}

\* C24: train() is called exactly on the endEpisode calls that bring the
\* episode counter to a multiple of 10, and a snapshot is saved on a call
\* exactly if it brings the counter to a multiple of 50 or its score is
\* higher than every score passed before.
C24_TrainAndSaveSchedule ==
    storeOp.name = "endEpisode" =>
        /\ storeOp.trained <=> (storeOp.count % 10 = 0)
        /\ (storeOp.saved # <<>>) <=>
               \/ storeOp.count % 50 = 0
               \/ storeOp.highestBefore = Undefined
               \/ storeOp.score > storeOp.highestBefore

\* C24 as amended: a snapshot is saved exactly if the call brings the
\* counter to a multiple of 50 or its score is higher than 0 and than
\* every score passed since the instance was constructed or last reset.
C24_TrainAndSaveScheduleAboveZero ==
    storeOp.name = "endEpisode" =>
        /\ storeOp.trained <=> (storeOp.count % 10 = 0)
        /\ (storeOp.saved # <<>>) <=>
               \/ storeOp.count % 50 = 0
               \/ /\ storeOp.score > 0
                  /\ \/ storeOp.highestBefore = Undefined
                     \/ storeOp.score > storeOp.highestBefore

\* the tenth episode of an instance has ended with a score below an
\* earlier one: train() was called and nothing was saved
C24_Witness ==
    /\ storeOp.name = "endEpisode"
    /\ storeOp.count = 10
    /\ storeOp.trained
    /\ storeOp.highestBefore # Undefined
    /\ storeOp.score > 0
    /\ storeOp.saved = <<>>

\* C25: a snapshot held in the store never changes after it is saved:
\* whatever is loaded and trained, its weights and biases stay what the
\* store was given.
C25_StoredSnapshotsImmutable ==
    \A e \in EngineIds :
        engines[e].alive =>
            \A w \in Entries(engines[e].weights.items) : w \in Entries(engines[e].originals)

\* C26: a load with the id that a save returned, issued right after the
\* save, returns the parameters just saved, never null.
C26_SavedIdLoads ==
    \A k \in DOMAIN storeOp.saved : storeOp.loadedAfter[k] = storeOp.saved[k].data

\* the snapshots of a list whose performance is at least p
AtLeast(items, p) == {i \in DOMAIN items : ~Greater(p, items[i].performance)}

\* C26 as amended: the load returns the parameters just saved unless the
\* store already held 10 snapshots of a performance at least that of the
\* new one; then the new snapshot is dropped by the save and the load
\* returns null.
C26_SavedIdLoadsUnlessDropped ==
    \A k \in DOMAIN storeOp.saved :
        storeOp.loadedAfter[k] =
            IF Cardinality(AtLeast(storeOp.heldBefore[k], storeOp.saved[k].performance))
                  >= maxWeights
            THEN PlainText("missing")
            ELSE storeOp.saved[k].data

\* a save into a full store has kept the new snapshot, and a load with
\* its id has returned it
C26_Witness ==
    /\ storeOp.overflowed
    /\ \E k \in DOMAIN storeOp.saved :
          /\ Len(storeOp.heldBefore[k]) = maxWeights
          /\ storeOp.loadedAfter[k] = storeOp.saved[k].data

\* C27: after resetWeights the statistics start afresh: averagePerformance
\* is the mean of the scores passed to endEpisode since the reset.
C27_AverageSinceReset ==
    \A e \in EngineIds :
        (engines[e].alive /\ engines[e].since.reset /\ engines[e].since.count > 0)
        => engines[e].meta.averagePerformance =
              engines[e].since.sum \div engines[e].since.count

\* C29: without the exploration of training, decide makes no random
\* choice: on the same world, with the same weights and the same rolling
\* memory, it returns the same action whatever Math.random() gives.
C29_InferenceDeterministic ==
    (Decided /\ tick.explore = 0) =>
        \A coin \in BOOLEAN :
            applyAntiOscillationMemory(tick.gs,
                                       applyBoundaryAvoidance(tick.gs, tick.checked, coin),
                                       tick.positions) = tick.action

----------------------------------------------------------------------------
(* The frame loops of the player-vs-AI game and of the turn-based game,    *)
(* on a field without hazards: who steers the AI avatar on each frame.     *)
(* Times are in ms, positions in thousandths of a pixel, velocities in     *)
(* pixels per second.                                                      *)

AI_DECISION_FREQUENCY == 15     \* GAME_CONFIG of the turn-based game: 0.015 s
aiDecideInterval == 40          \* the 0.04 s update() sets aiDecideCDRef to
PLAYER_SPEED == 300             \* pixels per second

\* difficulty(elapsed) = elapsed / 12 with elapsed in seconds, in thousandths
calculateDifficulty(elapsed) == elapsed \div 12

\* the arena of the player-vs-AI game, 600 x 337.5 px
Arena == [width |-> 600000, height |-> 337500, r |-> 12000]

\* the physics step of updateState and of updateGame on one avatar
MoveAvatar(P, elapsed, dt, mvx, mvy, speedMultiplier) ==
    LET baseDifficultySpeedMultiplier ==
            Milli + Min2(600, (calculateDifficulty(elapsed) * 90) \div Milli)
        finalSpeed ==
            (((PLAYER_SPEED * baseDifficultySpeedMultiplier) \div Milli) * speedMultiplier)
                \div Milli
        len == IF mvx = 0 /\ mvy = 0 THEN Milli ELSE Hypot(mvx * Milli, mvy * Milli)
        vx == (mvx * Milli * finalSpeed) \div len
        vy == (mvy * Milli * finalSpeed) \div len
    IN [x |-> Clamp(P.x + (vx * dt), Arena.r, Arena.width - Arena.r),
        y |-> Clamp(P.y + (vy * dt), Arena.r, Arena.height - Arena.r),
        velX |-> vx, velY |-> vy]

\* what decide can return to the loop: hold, right or down-right, at the
\* lowest and at a middle speed
LoopDecisions ==
    {[mvx |-> actionMap[a + 1][1], mvy |-> actionMap[a + 1][2], speed |-> s] :
        a \in {0, 2, 8}, s \in {1000, 3000}}

\* the keys held down, as the movement they add up to
Keys == {<<0, 0>>, <<-1, 0>>}

\* the time requestAnimationFrame gives between two frames: a frame at
\* 120 or at 60 fps, or a late frame cut to the loop's cap of 0.05 s
FrameMs == {8, 16, 50}

LoopFrame ==
    UNCHANGED <<world, clock, net, recentPositions, borderAvoidanceMemory, centerTracker,
                lastAction, lastFeatures, decision, tick, features, fwd, calls, pred,
                meta, exported, lastOp, localStorage, engines, storeOp, replay, turn>>

InitLoop ==
    /\ world = NoDecision.gs
    /\ MemoryIdle
    /\ calls = 0
    /\ pred = NoPrediction
    /\ meta = FreshMeta
    /\ exported = NoExport
    /\ lastOp = NoOp
    /\ localStorage = [weights_v2 |-> Stored("missing", <<>>), weights |-> PlainText("missing"),
                       full |-> FALSE]
    /\ engines = [e \in EngineIds |-> NoEngine]
    /\ storeOp = NoStoreOp
    /\ replay = NoReplay
    /\ turn = NoTurn
    /\ \E mode \in {"pvai", "turnbased"} :
          loop = [NoLoop EXCEPT !.mode = mode,
                                !.ai = [x |-> 300000, y |-> 168750, velX |-> 0, velY |-> 0],
                                !.human = [x |-> 300000, y |-> 168750, velX |-> 0, velY |-> 0]]

\* update(dt) of the player-vs-AI game while both sides are alive
Update ==
    /\ loop.mode = "pvai"
    /\ loop.frames < MaxFrames
    /\ \E dt \in FrameMs, K \in Keys :
          LET playerSpeedMultiplier == IF K # <<0, 0>> THEN Milli ELSE 0
              decides == loop.aiDecideCD - dt <= 0
          IN \E decision_ \in IF decides THEN LoopDecisions ELSE {NoLoop.given} :
                loop' = [loop EXCEPT
                    !.frames = @ + 1,
                    !.elapsed = @ + dt,
                    !.aiDecideCD = IF decides THEN aiDecideInterval ELSE @ - dt,
                    !.latest = IF decides THEN decision_ ELSE @,
                    !.decided = @ \/ decides,
                    !.decidedNow = decides,
                    !.given = decision_,
                    !.human = MoveAvatar(@, loop.elapsed + dt, dt, K[1], K[2],
                                         playerSpeedMultiplier),
                    !.ai = MoveAvatar(@, loop.elapsed + dt, dt, decision_.mvx, decision_.mvy,
                                      decision_.speed)]
    /\ LoopFrame

\* updateGame(dt) of the turn-based game while the AI has the turn
UpdateGame ==
    /\ loop.mode = "turnbased"
    /\ loop.frames < MaxFrames
    /\ \E dt \in FrameMs :
          LET decides == loop.aiDecideCD - dt <= 0
          IN \E decision_ \in IF decides THEN LoopDecisions ELSE {loop.aiCurrentAction} :
                loop' = [loop EXCEPT
                    !.frames = @ + 1,
                    !.elapsed = @ + dt,
                    !.aiDecideCD = IF decides THEN AI_DECISION_FREQUENCY ELSE @ - dt,
                    !.aiCurrentAction = decision_,
                    !.latest = IF decides THEN decision_ ELSE @,
                    !.decided = @ \/ decides,
                    !.decidedNow = decides,
                    !.given = decision_,
                    !.ai = MoveAvatar(@, loop.elapsed + dt, dt, decision_.mvx, decision_.mvy,
                                      decision_.speed)]
    /\ LoopFrame

NextLoop == Update \/ UpdateGame

SpecLoop == InitLoop /\ [][NextLoop]_vars

\* C28: in player-vs-AI mode the AI avatar moves on every frame with the
\* movement vector and the speed of its most recent decision, also on the
\* frames on which no decision is taken.
C28_AvatarKeepsLastDecision ==
    (loop.mode = "pvai" /\ loop.decided) => loop.given = loop.latest

\* the same of the turn-based game
TurnBasedAvatarKeepsLastDecision ==
    (loop.mode = "turnbased" /\ loop.decided) => loop.given = loop.latest

----------------------------------------------------------------------------
(* The turn-based game: startGame, the frames of updateGame with the hit  *)
(* of a hazard as an input, switchPlayer and stopGame.  Times are in ms.  *)

TURNBASED_LIVES == 1
TURNBASED_SWITCH_THRESHOLD == 5000      \* 5.0 s
HIT_IFRAMES_DURATION == 1200            \* 1.2 s
FrameCapMs == 50                        \* the loop's dt is at most 0.05 s

\* the absent nextPlayer and newPlayer
NoPlayer == "undefined"

Other(player) == IF player = "human" THEN "ai" ELSE "human"

\* calculateSwitchPlayer with a turn that must last longer than the threshold
calculateSwitchPlayerAfterThreshold(currentPlayerRef, gameTime) ==
    [canSwitch |-> gameTime > TURNBASED_SWITCH_THRESHOLD,
     turnRecord |-> [player |-> currentPlayerRef, duration |-> gameTime,
                     qualified |-> gameTime > TURNBASED_SWITCH_THRESHOLD],
     newPlayer |-> IF gameTime > TURNBASED_SWITCH_THRESHOLD
                   THEN Other(currentPlayerRef) ELSE NoPlayer]

\* calculateSwitchPlayer(turnState, refs, gameTime); every caller passes
\* the game time
calculateSwitchPlayer(currentPlayerRef, gameTime) ==
    [canSwitch |-> gameTime >= TURNBASED_SWITCH_THRESHOLD,
     turnRecord |-> [player |-> currentPlayerRef, duration |-> gameTime,
                     qualified |-> gameTime >= TURNBASED_SWITCH_THRESHOLD],
     newPlayer |-> IF gameTime >= TURNBASED_SWITCH_THRESHOLD
                   THEN Other(currentPlayerRef) ELSE NoPlayer]

\* resetForNewTurn(..., nextPlayer): the fields of the game the turn logic reads
resetForNewTurn(t, nextPlayer) ==
    [t EXCEPT !.elapsed = 0, !.lives = TURNBASED_LIVES, !.hitIFrames = 0, !.over = FALSE,
              !.currentPlayerRef = IF nextPlayer # NoPlayer THEN nextPlayer ELSE @]

\* handlePlayerDeath(), as the frame loop holds it: the loop was started by
\* the render that followed startGame, whose turnHistory is empty
handlePlayerDeath(t) ==
    The({ IF c.canSwitch /\ c.newPlayer # NoPlayer
          THEN [resetForNewTurn(t, c.newPlayer) EXCEPT
                    !.turnHistory = Append(@, c.turnRecord),
                    !.currentPlayer = c.newPlayer,
                    !.currentTurnTime = 0,
                    !.turnTimeRef = 0,
                    !.gameOver = FALSE,
                    !.over = FALSE]
          ELSE [t EXCEPT !.turnHistory = Append(@, c.turnRecord),
                         !.finalTotalTime = c.turnRecord.duration,
                         !.gameOver = TRUE,
                         !.running = FALSE] :
            c \in {calculateSwitchPlayer(t.currentPlayerRef, t.turnTimeRef)} })

\* playerHit(gameState, gameStateRef, onPlayerDeath)
playerHit(t) ==
    IF t.hitIFrames > 0 \/ t.over THEN t
    ELSE The({ IF hit.lives <= 0 THEN handlePlayerDeath([hit EXCEPT !.over = TRUE]) ELSE hit :
                 hit \in {[t EXCEPT !.lives = Max2(0, @ - 1),
                                    !.hitIFrames = HIT_IFRAMES_DURATION]} })

\* switchPlayer()
switchPlayer(t) ==
    The({ IF ~c.canSwitch THEN t
          ELSE [resetForNewTurn(t, c.newPlayer) EXCEPT
                    !.turnHistory = Append(@, c.turnRecord),
                    !.currentPlayer = c.newPlayer,
                    !.currentTurnTime = 0,
                    !.turnTimeRef = 0,
                    !.gameOver = FALSE] :
            c \in {calculateSwitchPlayer(t.currentPlayerRef, t.currentTurnTime)} })

\* what an operation found: who had the turn, for how long, and the rest
\* that a refused request must leave as it was
Found(t, op) ==
    [op |-> op, player |-> t.currentPlayerRef, time |-> t.turnTimeRef,
     turnHistory |-> t.turnHistory, running |-> t.running, gameOver |-> t.gameOver]

TurnFrame ==
    UNCHANGED <<world, clock, net, recentPositions, borderAvoidanceMemory, centerTracker,
                lastAction, lastFeatures, decision, tick, features, fwd, calls, pred,
                meta, exported, lastOp, localStorage, engines, storeOp, replay, loop>>

InitTurn ==
    /\ world = NoDecision.gs
    /\ MemoryIdle
    /\ calls = 0
    /\ pred = NoPrediction
    /\ meta = FreshMeta
    /\ exported = NoExport
    /\ lastOp = NoOp
    /\ localStorage = [weights_v2 |-> Stored("missing", <<>>), weights |-> PlainText("missing"),
                       full |-> FALSE]
    /\ engines = [e \in EngineIds |-> NoEngine]
    /\ storeOp = NoStoreOp
    /\ replay = NoReplay
    /\ loop = NoLoop
    /\ turn = NoTurn

\* startGame(): the Start and Restart buttons and the Enter key
StartGame ==
    /\ turn.games < MaxGames
    /\ turn' = [resetForNewTurn(turn, NoPlayer) EXCEPT
                    !.currentPlayer = "human", !.currentPlayerRef = "human",
                    !.currentTurnTime = 0, !.turnTimeRef = 0, !.finalTotalTime = 0,
                    !.turnHistory = <<>>, !.running = TRUE, !.gameOver = FALSE,
                    !.games = @ + 1, !.last = Found(turn, "start")]
    /\ TurnFrame

\* one frame of updateGame(dt) at the longest dt, with or without a hazard
\* touching the player
UpdateTurn ==
    /\ turn.running /\ ~turn.over
    /\ turn.turnTimeRef < MaxTurnMs
    /\ Len(turn.turnHistory) < MaxTurns
    /\ \E touched \in BOOLEAN :
          \E timed \in {[turn EXCEPT !.elapsed = @ + FrameCapMs,
                                     !.hitIFrames = Max2(0, @ - FrameCapMs),
                                     !.turnTimeRef = @ + FrameCapMs,
                                     !.currentTurnTime = turn.turnTimeRef + FrameCapMs]} :
             turn' = IF touched /\ timed.hitIFrames <= 0
                     THEN [playerHit(timed) EXCEPT !.last = Found(timed, "death")]
                     ELSE [timed EXCEPT !.last = Found(timed, "frame")]
    /\ TurnFrame

\* a request to switch: switchPlayer() is called while the game runs
SwitchPlayer ==
    /\ turn.running /\ ~turn.gameOver
    /\ Len(turn.turnHistory) < MaxTurns
    /\ turn' = [switchPlayer(turn) EXCEPT !.last = Found(turn, "switch")]
    /\ TurnFrame

\* stopGame(): the End Game button
StopGame ==
    /\ turn.running /\ ~turn.gameOver
    /\ Len(turn.turnHistory) < MaxTurns
    /\ turn' = [turn EXCEPT
          !.turnHistory =
              IF turn.currentTurnTime > 0
              THEN Append(@, calculateSwitchPlayer(turn.currentPlayerRef,
                                                   turn.turnTimeRef).turnRecord)
              ELSE @,
          !.finalTotalTime =
              IF turn.currentTurnTime > 0
              THEN SeqSum([i \in DOMAIN turn.turnHistory |-> turn.turnHistory[i].duration],
                          Len(turn.turnHistory))
                   + turn.turnTimeRef
              ELSE @,
          !.running = FALSE,
          !.gameOver = TRUE,
          !.last = Found(turn, "stop")]
    /\ TurnFrame

NextTurn == StartGame \/ UpdateTurn \/ SwitchPlayer \/ StopGame

SpecTurn == InitTurn /\ [][NextTurn]_vars

====
